---------------------------- MODULE Spec2Model ----------------------------
(***************************************************************************)
(* Signal engines and trade simulators of the backend.                     *)
(*                                                                         *)
(* Prices are integers in units of 0.001 (100.000 is 100000); the Forex    *)
(* engines use units of 0.00001, a tenth of a pip.  Percentages, ratios    *)
(* and scores that the code keeps as floats are compared exactly, by       *)
(* cross-multiplication.  A candle window is given by its length and by    *)
(* the readings the indicator library computes on it; every indicator      *)
(* keeps the guard of its code (the fallback for a window that is too      *)
(* short) and takes the reading otherwise.                                 *)
(***************************************************************************)
EXTENDS Integers, Sequences, FiniteSets, TLC

VARIABLES phase, win, sig, trade

vars == <<phase, win, sig, trade>>

Abs(x) == IF x < 0 THEN -x ELSE x
Min(a, b) == IF a <= b THEN a ELSE b
Max(a, b) == IF a >= b THEN a ELSE b

\* x / den * 100 compared with milli / 1000 (a percentage), for den > 0
PctGE(x, den, milli) == x * 100000 >= milli * den
PctGT(x, den, milli) == x * 100000 > milli * den
PctLE(x, den, milli) == x * 100000 <= milli * den
PctLT(x, den, milli) == x * 100000 < milli * den

\* reward / risk if risk > 0 else 0, compared with tenths / 10
RatioLT(reward, risk, tenths) ==
    IF risk > 0 THEN reward * 10 < tenths * risk ELSE 0 < tenths

\* reward / risk if risk > 0 else 0, in hundredths (rounded down)
Ratio100(reward, risk) == IF risk > 0 THEN (reward * 100) \div risk ELSE 0

\* min(score / 100.0, 1.0), in hundredths
Confidence(score) == Min(score, 100)

NoWindow == [engine |-> "none"]
NoSignal == [signal |-> "NONE"]
NoTrade == [sim |-> "none"]

\* candles[-1] on an empty list
IndexError == [signal |-> "IndexError"]

(***************************************************************************)
(* TradingEngine (trading_engine.py)                                       *)
(***************************************************************************)

TechnicalIndicators_calculate_ema(w, period) ==
    IF w.n < period THEN w.mean
    ELSE IF period = 20 THEN w.ema_20 ELSE w.ema_50

TechnicalIndicators_calculate_rsi(w) ==
    IF w.n < 14 + 1 THEN 50 ELSE w.rsi

TechnicalIndicators_calculate_atr(w) ==
    IF w.n < 14 THEN 0 ELSE w.atr

\* the score contribution of detect_candle_pattern
TechnicalIndicators_detect_candle_pattern(w) ==
    IF w.n < 3 THEN 0 ELSE w.pattern_score

\* a strong trend worth 30 points
TradingEngine_analyze_trend_30(ema_20, ema_50) ==
    LET spread == Abs(ema_20 - ema_50)
        pts == IF PctGE(spread, ema_50, 500) THEN 30
               ELSE IF PctGE(spread, ema_50, 200) THEN 20
               ELSE 15
    IN  IF ema_20 > ema_50 THEN <<"BULLISH", pts>>
        ELSE IF ema_20 < ema_50 THEN <<"BEARISH", pts>>
        ELSE <<"SIDEWAYS", 5>>

\* equal averages taken as a rising trend
TradingEngine_analyze_trend_flat_rising(ema_20, ema_50) ==
    LET spread == Abs(ema_20 - ema_50)
        pts == IF PctGE(spread, ema_50, 500) THEN 25
               ELSE IF PctGE(spread, ema_50, 200) THEN 20
               ELSE 15
    IN  IF ema_20 >= ema_50 THEN <<"BULLISH", pts>>
        ELSE IF ema_20 < ema_50 THEN <<"BEARISH", pts>>
        ELSE <<"SIDEWAYS", 5>>

\* <<trend, score contribution>>
TradingEngine_analyze_trend(ema_20, ema_50) ==
    LET spread == Abs(ema_20 - ema_50)
        pts == IF PctGE(spread, ema_50, 500) THEN 25
               ELSE IF PctGE(spread, ema_50, 200) THEN 20
               ELSE 15
    IN  IF ema_20 > ema_50 THEN <<"BULLISH", pts>>
        ELSE IF ema_20 < ema_50 THEN <<"BEARISH", pts>>
        ELSE <<"SIDEWAYS", 5>>

\* <<score contribution, is_valid>>
TradingEngine_analyze_pullback(current_price, ema_20, trend) ==
    LET d == Abs(current_price - ema_20)
    IN  IF trend \in {"BULLISH", "BEARISH"}
        THEN IF PctLE(d, ema_20, 300) THEN <<25, TRUE>>
             ELSE IF PctLE(d, ema_20, 500) THEN <<20, TRUE>>
             ELSE IF PctLE(d, ema_20, 1000) THEN <<15, TRUE>>
             ELSE <<0, FALSE>>
        ELSE <<0, FALSE>>

TradingEngine_analyze_rsi(rsi, trend) ==
    IF trend = "BULLISH"
    THEN IF 40 <= rsi /\ rsi <= 60 THEN 20
         ELSE IF 30 <= rsi /\ rsi < 40 THEN 18
         ELSE IF 60 < rsi /\ rsi <= 70 THEN 10
         ELSE 0
    ELSE IF trend = "BEARISH"
    THEN IF 40 <= rsi /\ rsi <= 60 THEN 20
         ELSE IF 60 < rsi /\ rsi <= 70 THEN 18
         ELSE IF 30 <= rsi /\ rsi < 40 THEN 10
         ELSE 0
    ELSE IF 40 <= rsi /\ rsi <= 60 THEN 15 ELSE 5

\* w.volume_ratio: current volume over the mean of the last 20, in hundredths
TradingEngine_analyze_volume(w) ==
    IF w.n < 20 THEN 8
    ELSE IF w.volume_ratio >= 150 THEN 15
    ELSE IF w.volume_ratio >= 120 THEN 12
    ELSE IF w.volume_ratio >= 100 THEN 10
    ELSE 5

\* both targets at twice the stop distance
TradingEngine_calculate_levels_one_target(entry, atr, signal) ==
    LET sl_distance == (atr * 15) \div 10
        tp1_distance == sl_distance * 2
        tp2_distance == sl_distance * 2
    IN  IF signal = "PUT"
        THEN <<entry + sl_distance, entry - tp1_distance, entry - tp2_distance>>
        ELSE <<entry - sl_distance, entry + tp1_distance, entry + tp2_distance>>

\* <<stop_loss, tp1, tp2>>
TradingEngine_calculate_levels(entry, atr, signal) ==
    LET sl_distance == (atr * 15) \div 10
        tp1_distance == sl_distance * 2
        tp2_distance == sl_distance * 3
    IN  IF signal = "PUT"
        THEN <<entry + sl_distance, entry - tp1_distance, entry - tp2_distance>>
        ELSE <<entry - sl_distance, entry + tp1_distance, entry + tp2_distance>>

\* the decision taken on trend and pullback alone, the score not tested
TradingEngine_determine_signal_unscored(score, min_score, trend, pullback_valid) ==
    IF trend = "BULLISH" /\ pullback_valid THEN "CALL"
    ELSE IF trend = "BEARISH" /\ pullback_valid THEN "PUT"
    ELSE "WAIT"

\* signal_type after the score test of analyze
TradingEngine_determine_signal(score, min_score, trend, pullback_valid) ==
    IF score >= min_score
    THEN IF trend = "BULLISH" /\ pullback_valid THEN "CALL"
         ELSE IF trend = "BEARISH" /\ pullback_valid THEN "PUT"
         ELSE "WAIT"
    ELSE "WAIT"

\* the risk/reward validation skipped when the risk is 0
TradingEngine_validate_rr_positive_risk(signal_type, reward_1, risk, risk_reward_min) ==
    IF signal_type # "WAIT" /\ risk > 0 /\ reward_1 * 10 < risk_reward_min * risk
    THEN "WAIT" ELSE signal_type

\* signal_type after the risk/reward validation of analyze
TradingEngine_validate_rr(signal_type, reward_1, risk, risk_reward_min) ==
    IF signal_type # "WAIT" /\ RatioLT(reward_1, risk, risk_reward_min)
    THEN "WAIT" ELSE signal_type

TradingEngine_analyze(w) ==
    IF w.n = 0 THEN IndexError
    ELSE
    LET current_price == w.close
        ema_20 == TechnicalIndicators_calculate_ema(w, 20)
        ema_50 == TechnicalIndicators_calculate_ema(w, 50)
        rsi == TechnicalIndicators_calculate_rsi(w)
        atr == TechnicalIndicators_calculate_atr(w)
        pattern_score == TechnicalIndicators_detect_candle_pattern(w)
        tr == TradingEngine_analyze_trend(ema_20, ema_50)
        trend == tr[1]
        pb == TradingEngine_analyze_pullback(current_price, ema_20, trend)
        pullback_valid == pb[2]
        rsi_score == TradingEngine_analyze_rsi(rsi, trend)
        volume_score == TradingEngine_analyze_volume(w)
        score == tr[2] + pb[1] + rsi_score + volume_score + pattern_score
        rsi_reason == \/ (40 <= rsi /\ rsi <= 60)
                      \/ (trend = "BULLISH" /\ 30 <= rsi /\ rsi < 40)
                      \/ (trend = "BEARISH" /\ 60 < rsi /\ rsi <= 70)
        signal_0 == TradingEngine_determine_signal(score, w.min_score, trend,
                                                   pullback_valid)
        lv == TradingEngine_calculate_levels(current_price, atr, signal_0)
        risk == IF signal_0 = "CALL" THEN current_price - lv[1]
                ELSE IF signal_0 = "PUT" THEN lv[1] - current_price
                ELSE (atr * 15) \div 10
        reward_1 == IF signal_0 = "CALL" THEN lv[2] - current_price
                    ELSE IF signal_0 = "PUT" THEN current_price - lv[2]
                    ELSE risk * 2
        reward_2 == IF signal_0 = "CALL" THEN lv[3] - current_price
                    ELSE IF signal_0 = "PUT" THEN current_price - lv[3]
                    ELSE risk * 3
        signal_type == TradingEngine_validate_rr(signal_0, reward_1, risk,
                                                 w.risk_reward_min)
        reasons == (IF trend # "SIDEWAYS" THEN <<"trend">> ELSE <<>>)
                   \o (IF pullback_valid THEN <<"pullback">> ELSE <<>>)
                   \o (IF rsi_reason THEN <<"rsi">> ELSE <<>>)
                   \o (IF volume_score >= 12 THEN <<"volume">> ELSE <<>>)
                   \o (IF pattern_score >= 12 THEN <<"pattern">> ELSE <<>>)
        warnings == (IF trend = "SIDEWAYS" THEN <<"sideways">> ELSE <<>>)
                    \o (IF rsi_reason THEN <<>> ELSE <<"rsi extreme">>)
                    \o (IF score >= w.min_score THEN <<>>
                        ELSE <<"score insufficient">>)
                    \o (IF signal_type # signal_0
                        THEN <<"risk/reward low">> ELSE <<>>)
    IN  [signal |-> signal_type, score |-> score,
         confidence |-> Confidence(score),
         entry_price |-> current_price, stop_loss |-> lv[1],
         take_profit_1 |-> lv[2], take_profit_2 |-> lv[3],
         trend |-> trend, atr_value |-> atr,
         risk |-> risk, reward_1 |-> reward_1,
         risk_reward_1 |-> Ratio100(reward_1, risk),
         risk_reward_2 |-> Ratio100(reward_2, risk),
         reasons |-> reasons, warnings |-> warnings]

\* An empty window has no readings; a window of 30 candles has every reading
\* but the 50-candle average.  The windows of 100 candles are those
\* run_real_market_backtest sends to /trade-setup, analysed with the
\* server's min_score=70 and risk_reward_min=2.0.
TradingEngineWindows ==
    { [engine |-> "TradingEngine", n |-> n, min_score |-> ms,
       risk_reward_min |-> rr, mean |-> 100000, ema_50 |-> 100000,
       ema_20 |-> e, close |-> e + d, rsi |-> r, atr |-> a,
       volume_ratio |-> v, pattern_score |-> p] :
      n \in {30, 50}, ms \in {60, 70}, rr \in {20, 25},
      e \in {99400, 100000, 100100, 100300, 100600},
      d \in {-800, 0, 400, 2000}, r \in {25, 35, 50, 65},
      a \in {0, 1000}, v \in {80, 130, 160}, p \in {8, 15} }
    \cup
    { [engine |-> "TradingEngine", n |-> 100, min_score |-> 70,
       risk_reward_min |-> 20, mean |-> 100000, ema_50 |-> 100000,
       ema_20 |-> e, close |-> e + d, rsi |-> r, atr |-> 1000,
       volume_ratio |-> v, pattern_score |-> p] :
      e \in {99400, 100000, 100100, 100300, 100600},
      d \in {-800, 0, 400, 2000}, r \in {25, 35, 50, 65},
      v \in {80, 130, 160}, p \in {8, 15} }
    \cup
    { [engine |-> "TradingEngine", n |-> 0, min_score |-> 70,
       risk_reward_min |-> 20, mean |-> 0, ema_50 |-> 0, ema_20 |-> 0,
       close |-> 0, rsi |-> 50, atr |-> 0, volume_ratio |-> 100,
       pattern_score |-> 0] }

(***************************************************************************)
(* AdvancedTradingEngine (advanced_engine_v3.py)                           *)
(***************************************************************************)

\* a rebound of exactly 1% counted as a recovery
MarketAnalyzer_detect_market_condition_from_1pct(w) ==
    LET change_24h == w.close - w.close_24
        change_6h == w.close - w.close_6
    IN  IF w.n < 50 THEN "NORMAL"
        ELSE IF PctLT(change_24h, w.close_24, -5000) THEN "CRASH"
        ELSE IF PctLT(change_6h, w.close_6, -3000) THEN "PANIC"
        ELSE IF PctLT(change_24h, w.close_24, -2000)
                /\ PctGE(change_6h, w.close_6, 1000) THEN "RECOVERY"
        ELSE "NORMAL"

\* w.close_24 and w.close_6 are closes[-24] and closes[-6]
MarketAnalyzer_detect_market_condition(w) ==
    LET change_24h == w.close - w.close_24
        change_6h == w.close - w.close_6
    IN  IF w.n < 50 THEN "NORMAL"
        ELSE IF PctLT(change_24h, w.close_24, -5000) THEN "CRASH"
        ELSE IF PctLT(change_6h, w.close_6, -3000) THEN "PANIC"
        ELSE IF PctLT(change_24h, w.close_24, -2000)
                /\ PctGT(change_6h, w.close_6, 1000) THEN "RECOVERY"
        ELSE "NORMAL"

\* in hundredths of a percent
MarketAnalyzer_calculate_volatility(w) ==
    IF w.n < 20 THEN 0 ELSE w.volatility

\* The trend strength times ema_slow: w.up_moves is the number of rising
\* closes among the last 10.
MarketAnalyzer_calculate_trend_strength(w, ema_fast, ema_mid, ema_slow) ==
    IF w.n < 10 THEN 0
    ELSE
    LET alignment_score ==
            IF ema_fast > ema_mid /\ ema_mid > ema_slow THEN 40
            ELSE IF ema_fast < ema_mid /\ ema_mid < ema_slow THEN 40
            ELSE 10
        spread_score == Min(Abs(ema_fast - ema_slow) * 1000, 30 * ema_slow)
        consistency == Abs(w.up_moves - 5) * 6
        total == (alignment_score + consistency) * ema_slow + spread_score
    IN  Min(total, 100 * ema_slow)

AdvancedIndicators_calculate_ema(w, period) ==
    IF w.n < period THEN w.mean
    ELSE IF period = 12 THEN w.ema_fast
    ELSE IF period = 26 THEN w.ema_mid ELSE w.ema_slow

AdvancedIndicators_calculate_rsi(w) ==
    IF w.n < 14 + 1 THEN 50 ELSE w.rsi

AdvancedIndicators_calculate_atr(w) ==
    IF w.n < 14 THEN 0 ELSE w.atr

\* in hundredths
AdvancedIndicators_calculate_volume_profile(w) ==
    IF w.n < 20 THEN 100 ELSE w.volume_ratio

\* in hundredths
AdaptiveRiskManager_calculate_stop_multiplier(market_condition, volatility) ==
    LET multiplier == IF market_condition = "CRASH" THEN 400
                      ELSE IF market_condition = "PANIC" THEN 300
                      ELSE 200
    IN  IF volatility > 300 THEN (multiplier * 130) \div 100
        ELSE IF volatility > 200 THEN (multiplier * 115) \div 100
        ELSE multiplier

AdvancedTradingEngine_wait_signal(reason) ==
    [signal |-> "WAIT", score |-> 0, confidence |-> 0,
     entry_price |-> 0, stop_loss |-> 0,
     take_profit_1 |-> 0, take_profit_2 |-> 0,
     market_condition |-> "NORMAL", rsi |-> 50,
     reasons |-> <<>>, warnings |-> <<reason>>]

\* the points of the trend-strength factor, shared by both setups
AdvancedTradingEngine_trend_points(trend_strength, ema_slow) ==
    IF trend_strength >= 70 * ema_slow THEN 25
    ELSE IF trend_strength >= 50 * ema_slow THEN 20
    ELSE IF trend_strength >= 40 * ema_slow THEN 15
    ELSE 0

\* <<signal_type, score, reasons>>
AdvancedTradingEngine_analyze_bullish_setup(price, ema_fast, ema_slow, rsi, trend_strength, volume_ratio, market_condition) ==
    LET distance == price - ema_fast
        p1 == IF price > ema_fast
              THEN IF PctGE(distance, ema_fast, 100)
                      /\ PctLE(distance, ema_fast, 800) THEN 30
                   ELSE IF PctGE(distance, ema_fast, 0)
                           /\ PctLT(distance, ema_fast, 100) THEN 25
                   ELSE IF PctGT(distance, ema_fast, 800)
                           /\ PctLE(distance, ema_fast, 1500) THEN 20
                   ELSE 0
              ELSE 0
        p2 == AdvancedTradingEngine_trend_points(trend_strength, ema_slow)
        p3 == IF 45 <= rsi /\ rsi <= 65 THEN 20
              ELSE IF (40 <= rsi /\ rsi < 45) \/ (65 < rsi /\ rsi <= 70) THEN 15
              ELSE 0
        p4 == IF volume_ratio >= 130 THEN 15
              ELSE IF volume_ratio >= 100 THEN 10
              ELSE 0
        p5 == IF market_condition = "RECOVERY" THEN 10
              ELSE IF market_condition = "NORMAL" THEN 5
              ELSE 0
        score == p1 + p2 + p3 + p4 + p5
        reasons == (IF p1 > 0 THEN <<"price">> ELSE <<>>)
                   \o (IF p2 > 0 THEN <<"trend">> ELSE <<>>)
                   \o (IF p3 > 0 THEN <<"rsi">> ELSE <<>>)
                   \o (IF p4 > 0 THEN <<"volume">> ELSE <<>>)
                   \o (IF p5 > 0 THEN <<"market">> ELSE <<>>)
    IN  <<IF score >= 70 THEN "CALL" ELSE "WAIT", score, reasons>>

\* <<signal_type, score, reasons>>
AdvancedTradingEngine_analyze_bearish_setup(price, ema_fast, ema_slow, rsi, trend_strength, volume_ratio, market_condition) ==
    LET distance == ema_fast - price
        p1 == IF price < ema_fast
              THEN IF PctGE(distance, ema_fast, 100)
                      /\ PctLE(distance, ema_fast, 800) THEN 30
                   ELSE IF PctGE(distance, ema_fast, 0)
                           /\ PctLT(distance, ema_fast, 100) THEN 25
                   ELSE IF PctGT(distance, ema_fast, 800)
                           /\ PctLE(distance, ema_fast, 1500) THEN 20
                   ELSE 0
              ELSE 0
        p2 == AdvancedTradingEngine_trend_points(trend_strength, ema_slow)
        p3 == IF 35 <= rsi /\ rsi <= 55 THEN 20
              ELSE IF (30 <= rsi /\ rsi < 35) \/ (55 < rsi /\ rsi <= 60) THEN 15
              ELSE 0
        p4 == IF volume_ratio >= 130 THEN 15
              ELSE IF volume_ratio >= 100 THEN 10
              ELSE 0
        p5 == IF market_condition = "RECOVERY" THEN 5
              ELSE IF market_condition = "NORMAL" THEN 10
              ELSE 0
        score == p1 + p2 + p3 + p4 + p5
        reasons == (IF p1 > 0 THEN <<"price">> ELSE <<>>)
                   \o (IF p2 > 0 THEN <<"trend">> ELSE <<>>)
                   \o (IF p3 > 0 THEN <<"rsi">> ELSE <<>>)
                   \o (IF p4 > 0 THEN <<"volume">> ELSE <<>>)
                   \o (IF p5 > 0 THEN <<"market">> ELSE <<>>)
    IN  <<IF score >= 70 THEN "PUT" ELSE "WAIT", score, reasons>>

\* <<stop_loss, tp1, tp2>>; stop_multiplier in hundredths
AdvancedTradingEngine_calculate_adaptive_levels(entry, atr, signal, stop_multiplier) ==
    LET sl_distance == (atr * stop_multiplier) \div 100
        tp1_distance == sl_distance * 2
        tp2_distance == sl_distance * 3
    IN  IF signal = "PUT"
        THEN <<entry + sl_distance, entry - tp1_distance, entry - tp2_distance>>
        ELSE <<entry - sl_distance, entry + tp1_distance, entry + tp2_distance>>

\* FILTRO 3-5 with the volume filter moved before the other two
AdvancedTradingEngine_market_filters_volume_first(volatility, trend_strength, ema_slow, volume_ratio) ==
    IF volume_ratio < 70 THEN "Volume baixo"
    ELSE IF volatility > 400 THEN "Volatilidade extrema"
    ELSE IF trend_strength < 40 * ema_slow THEN "Tendencia fraca"
    ELSE ""

\* FILTRO 3-5: the reason of the first filter that rejects, "" when none does
AdvancedTradingEngine_market_filters(volatility, trend_strength, ema_slow, volume_ratio) ==
    IF volatility > 400 THEN "Volatilidade extrema"
    ELSE IF trend_strength < 40 * ema_slow THEN "Tendencia fraca"
    ELSE IF volume_ratio < 70 THEN "Volume baixo"
    ELSE ""

\* the direction chosen with ties between the EMAs let through
AdvancedTradingEngine_setup_ties(w) ==
    LET ema_fast == AdvancedIndicators_calculate_ema(w, 12)
        ema_mid == AdvancedIndicators_calculate_ema(w, 26)
        ema_slow == AdvancedIndicators_calculate_ema(w, 50)
        rsi == AdvancedIndicators_calculate_rsi(w)
        trend_strength == MarketAnalyzer_calculate_trend_strength(
                              w, ema_fast, ema_mid, ema_slow)
        volume_ratio == AdvancedIndicators_calculate_volume_profile(w)
        market_condition == MarketAnalyzer_detect_market_condition(w)
    IN  IF ema_fast >= ema_mid /\ ema_mid > ema_slow
        THEN AdvancedTradingEngine_analyze_bullish_setup(
                 w.close, ema_fast, ema_slow, rsi, trend_strength,
                 volume_ratio, market_condition)
        ELSE IF ema_fast <= ema_mid /\ ema_mid < ema_slow
        THEN AdvancedTradingEngine_analyze_bearish_setup(
                 w.close, ema_fast, ema_slow, rsi, trend_strength,
                 volume_ratio, market_condition)
        ELSE <<"WAIT", 0, <<>>>>

\* the setup analysed for the direction of the EMAs: <<signal_type, score, reasons>>
AdvancedTradingEngine_setup(w) ==
    LET ema_fast == AdvancedIndicators_calculate_ema(w, 12)
        ema_mid == AdvancedIndicators_calculate_ema(w, 26)
        ema_slow == AdvancedIndicators_calculate_ema(w, 50)
        rsi == AdvancedIndicators_calculate_rsi(w)
        trend_strength == MarketAnalyzer_calculate_trend_strength(
                              w, ema_fast, ema_mid, ema_slow)
        volume_ratio == AdvancedIndicators_calculate_volume_profile(w)
        market_condition == MarketAnalyzer_detect_market_condition(w)
    IN  IF ema_fast > ema_mid /\ ema_mid > ema_slow
        THEN AdvancedTradingEngine_analyze_bullish_setup(
                 w.close, ema_fast, ema_slow, rsi, trend_strength,
                 volume_ratio, market_condition)
        ELSE IF ema_fast < ema_mid /\ ema_mid < ema_slow
        THEN AdvancedTradingEngine_analyze_bearish_setup(
                 w.close, ema_fast, ema_slow, rsi, trend_strength,
                 volume_ratio, market_condition)
        ELSE <<"WAIT", 0, <<>>>>

AdvancedTradingEngine_min_score(market_condition) ==
    IF market_condition = "NORMAL" THEN 70 ELSE 80

\* the two minimum ratios exchanged
AdvancedTradingEngine_min_rr_exchanged(market_condition) ==
    IF market_condition = "NORMAL" THEN 22 ELSE 18

\* in tenths
AdvancedTradingEngine_min_rr(market_condition) ==
    IF market_condition = "NORMAL" THEN 18 ELSE 22

\* <<stop_loss, tp1, tp2>> for the signal type of the setup
AdvancedTradingEngine_levels(w) ==
    AdvancedTradingEngine_calculate_adaptive_levels(
        w.close, AdvancedIndicators_calculate_atr(w),
        AdvancedTradingEngine_setup(w)[1],
        AdaptiveRiskManager_calculate_stop_multiplier(
            MarketAnalyzer_detect_market_condition(w),
            MarketAnalyzer_calculate_volatility(w)))

\* <<reward, risk>> of the risk/reward validation
AdvancedTradingEngine_reward_risk(w) ==
    LET signal_type == AdvancedTradingEngine_setup(w)[1]
        lv == AdvancedTradingEngine_levels(w)
        atr == AdvancedIndicators_calculate_atr(w)
    IN  IF signal_type = "CALL" THEN <<lv[2] - w.close, w.close - lv[1]>>
        ELSE IF signal_type = "PUT" THEN <<w.close - lv[2], lv[1] - w.close>>
        ELSE <<atr * 2 * 2, atr * 2>>

\* FILTRO 7
AdvancedTradingEngine_rr_rejects(signal_type, reward, risk, min_rr) ==
    signal_type # "WAIT" /\ RatioLT(reward, risk, min_rr)

\* the history gate with the minimum of TradingEngine in place of its own
AdvancedTradingEngine_insufficient_data_50(w) == w.n < 50

\* the history gate
AdvancedTradingEngine_insufficient_data(w) == w.n < 100

AdvancedTradingEngine_analyze(w) ==
    IF AdvancedTradingEngine_insufficient_data(w)
    THEN AdvancedTradingEngine_wait_signal("Dados insuficientes")
    ELSE
    LET market_condition == MarketAnalyzer_detect_market_condition(w)
        ema_fast == AdvancedIndicators_calculate_ema(w, 12)
        ema_mid == AdvancedIndicators_calculate_ema(w, 26)
        ema_slow == AdvancedIndicators_calculate_ema(w, 50)
        volatility == MarketAnalyzer_calculate_volatility(w)
        trend_strength == MarketAnalyzer_calculate_trend_strength(
                              w, ema_fast, ema_mid, ema_slow)
        volume_ratio == AdvancedIndicators_calculate_volume_profile(w)
        filter == AdvancedTradingEngine_market_filters(
                      volatility, trend_strength, ema_slow, volume_ratio)
        setup == AdvancedTradingEngine_setup(w)
        signal_type == setup[1]
        score == setup[2]
        lv == AdvancedTradingEngine_levels(w)
        rr == AdvancedTradingEngine_reward_risk(w)
    IN  IF market_condition \in {"CRASH", "PANIC"}
        THEN AdvancedTradingEngine_wait_signal("Mercado em " \o market_condition)
        ELSE IF filter # ""
        THEN AdvancedTradingEngine_wait_signal(filter)
        ELSE IF score < AdvancedTradingEngine_min_score(market_condition)
        THEN AdvancedTradingEngine_wait_signal("Score insuficiente")
        ELSE IF AdvancedTradingEngine_rr_rejects(
                    signal_type, rr[1], rr[2],
                    AdvancedTradingEngine_min_rr(market_condition))
        THEN AdvancedTradingEngine_wait_signal("Risk/Reward insuficiente")
        ELSE [signal |-> signal_type, score |-> score,
              confidence |-> Confidence(score),
              entry_price |-> w.close, stop_loss |-> lv[1],
              take_profit_1 |-> lv[2], take_profit_2 |-> lv[3],
              market_condition |-> market_condition,
              rsi |-> AdvancedIndicators_calculate_rsi(w),
              reasons |-> setup[3], warnings |-> <<>>]

\* <<closes[-24] - close, closes[-6] - close>>: calm, a crash, a panic,
\* a rebound after a fall, a crash with a panic, a rebound of 1000 (exactly
\* 1% of a close of 100000 six candles back) after a fall
AdvancedMoves ==
    {<<0, 0>>, <<6500, 0>>, <<0, 4000>>, <<3000, -1500>>, <<6500, 4000>>,
     <<3000, -1000>>}

\* <<ema_fast, ema_mid, ema_slow>>: rising, falling, flat, rising weakly,
\* the two fast averages tied above the slow one, the middle one lowest
AdvancedEmas ==
    {<<101000, 100000, 98000>>, <<99000, 100000, 102000>>,
     <<100000, 100000, 100000>>, <<100100, 100050, 100000>>,
     <<101000, 101000, 98000>>, <<101000, 97000, 98000>>}

AdvancedTradingEngineWindows ==
    { [engine |-> "AdvancedTradingEngine", n |-> n, mean |-> 100000,
       ema_fast |-> e[1], ema_mid |-> e[2], ema_slow |-> e[3],
       close |-> e[1] + d, close_24 |-> e[1] + d + m[1],
       close_6 |-> e[1] + d + m[2], up_moves |-> u, rsi |-> r,
       atr |-> a, volume_ratio |-> v, volatility |-> vol] :
      n \in {99, 100}, e \in AdvancedEmas, m \in AdvancedMoves,
      d \in {-1200, -200, 0, 200, 202, 2000}, u \in {0, 5},
      r \in {30, 55, 68},
      a \in {0, 40, 1000}, v \in {50, 100, 140}, vol \in {100, 250, 450} }

(***************************************************************************)
(* ScalpingEngine (scalping_engine.py)                                     *)
(***************************************************************************)

ScalpingIndicators_calculate_ema(w, period) ==
    IF w.n < period THEN w.mean
    ELSE IF period = 9 THEN w.ema_9 ELSE w.ema_21

ScalpingIndicators_calculate_rsi(w) ==
    IF w.n < 14 + 1 THEN 50 ELSE w.rsi

\* in hundredths of a percent
ScalpingIndicators_calculate_momentum(w) ==
    IF w.n < 10 + 1 THEN 0 ELSE w.momentum

\* w.above_9 and w.below_9 count the last 5 closes above and below ema_9
ScalpingIndicators_detect_micro_trend(w, ema_9, ema_21) ==
    IF w.n < 10 THEN "UNCLEAR"
    ELSE IF w.above_9 >= 4 /\ ema_9 > ema_21 THEN "UP"
    ELSE IF w.below_9 >= 4 /\ ema_9 < ema_21 THEN "DOWN"
    ELSE "RANGING"

ScalpingIndicators_calculate_atr_fast(w) ==
    IF w.n < 7 THEN 0 ELSE w.atr

ScalpingIndicators_detect_volatility_spike(w) ==
    IF w.n < 20 THEN FALSE ELSE w.spike

\* in hundredths
ScalpingIndicators_check_volume_surge(w) ==
    IF w.n < 20 THEN 100 ELSE w.volume_ratio

ScalpingEngine_wait_signal(reason) ==
    [signal |-> "WAIT", score |-> 0, confidence |-> 0,
     entry_price |-> 0, stop_loss |-> 0,
     take_profit_1 |-> 0, take_profit_2 |-> 0,
     reasons |-> <<>>, warnings |-> <<reason>>]

\* <<signal_type, score, reasons>>
ScalpingEngine_analyze_scalp_long(price, ema9, ema21, rsi, momentum, vol_ratio) ==
    LET distance == price - ema9
        p1 == IF price > ema9
              THEN IF PctGE(distance, ema9, 50) /\ PctLE(distance, ema9, 300)
                   THEN 35
                   ELSE IF PctGE(distance, ema9, 0) /\ PctLT(distance, ema9, 50)
                   THEN 30
                   ELSE IF PctGT(distance, ema9, 300)
                           /\ PctLE(distance, ema9, 500)
                   THEN 25
                   ELSE 0
              ELSE 0
        p2 == IF ema9 > ema21
              THEN IF PctGE(ema9 - ema21, ema21, 100) THEN 25 ELSE 15
              ELSE 0
        p3 == IF 50 <= rsi /\ rsi <= 65 THEN 20
              ELSE IF 45 <= rsi /\ rsi < 50 THEN 15
              ELSE IF 65 < rsi /\ rsi <= 75 THEN 10
              ELSE 0
        p4 == IF momentum > 20 THEN 15
              ELSE IF momentum > 0 THEN 10
              ELSE 0
        p5 == IF vol_ratio >= 130 THEN 5 ELSE 0
        score == p1 + p2 + p3 + p4 + p5
        reasons == (IF p1 > 0 THEN <<"price">>
                    ELSE IF price > ema9 THEN <<>> ELSE <<"price below EMA9">>)
                   \o (IF p2 > 0 THEN <<"emas">> ELSE <<>>)
                   \o (IF p3 > 0 THEN <<"rsi">> ELSE <<>>)
                   \o (IF p4 > 0 THEN <<"momentum">> ELSE <<>>)
                   \o (IF p5 > 0 THEN <<"volume">> ELSE <<>>)
    IN  <<IF score >= 70 THEN "CALL" ELSE "WAIT", score, reasons>>

\* <<signal_type, score, reasons>>
ScalpingEngine_analyze_scalp_short(price, ema9, ema21, rsi, momentum, vol_ratio) ==
    LET distance == ema9 - price
        p1 == IF price < ema9
              THEN IF PctGE(distance, ema9, 50) /\ PctLE(distance, ema9, 300)
                   THEN 35
                   ELSE IF PctGE(distance, ema9, 0) /\ PctLT(distance, ema9, 50)
                   THEN 30
                   ELSE IF PctGT(distance, ema9, 300)
                           /\ PctLE(distance, ema9, 500)
                   THEN 25
                   ELSE 0
              ELSE 0
        p2 == IF ema9 < ema21
              THEN IF PctGE(ema21 - ema9, ema21, 100) THEN 25 ELSE 15
              ELSE 0
        p3 == IF 35 <= rsi /\ rsi <= 50 THEN 20
              ELSE IF 50 < rsi /\ rsi <= 55 THEN 15
              ELSE IF 25 <= rsi /\ rsi < 35 THEN 10
              ELSE 0
        p4 == IF momentum < -20 THEN 15
              ELSE IF momentum < 0 THEN 10
              ELSE 0
        p5 == IF vol_ratio >= 130 THEN 5 ELSE 0
        score == p1 + p2 + p3 + p4 + p5
        reasons == (IF p1 > 0 THEN <<"price">>
                    ELSE IF price < ema9 THEN <<>> ELSE <<"price above EMA9">>)
                   \o (IF p2 > 0 THEN <<"emas">> ELSE <<>>)
                   \o (IF p3 > 0 THEN <<"rsi">> ELSE <<>>)
                   \o (IF p4 > 0 THEN <<"momentum">> ELSE <<>>)
                   \o (IF p5 > 0 THEN <<"volume">> ELSE <<>>)
    IN  <<IF score >= 70 THEN "PUT" ELSE "WAIT", score, reasons>>

\* <<stop_loss, tp1, tp2>>
ScalpingEngine_calculate_scalp_levels(entry, atr, signal) ==
    LET sl_distance == (atr * 12) \div 10
        tp1_distance == (sl_distance * 15) \div 10
        tp2_distance == sl_distance * 2
    IN  IF signal = "PUT"
        THEN <<entry + sl_distance, entry - tp1_distance, entry - tp2_distance>>
        ELSE <<entry - sl_distance, entry + tp1_distance, entry + tp2_distance>>

\* the setup analysed for the micro trend: <<signal_type, score, reasons>>
ScalpingEngine_setup(w) ==
    LET ema_9 == ScalpingIndicators_calculate_ema(w, 9)
        ema_21 == ScalpingIndicators_calculate_ema(w, 21)
        rsi == ScalpingIndicators_calculate_rsi(w)
        momentum == ScalpingIndicators_calculate_momentum(w)
        volume_ratio == ScalpingIndicators_check_volume_surge(w)
        micro_trend == ScalpingIndicators_detect_micro_trend(w, ema_9, ema_21)
    IN  IF micro_trend = "UP"
        THEN ScalpingEngine_analyze_scalp_long(w.close, ema_9, ema_21, rsi,
                                               momentum, volume_ratio)
        ELSE IF micro_trend = "DOWN"
        THEN ScalpingEngine_analyze_scalp_short(w.close, ema_9, ema_21, rsi,
                                                momentum, volume_ratio)
        ELSE <<"WAIT", 0, <<>>>>

\* <<reward, risk>> of the risk/reward validation
ScalpingEngine_reward_risk(w) ==
    LET signal_type == ScalpingEngine_setup(w)[1]
        atr == ScalpingIndicators_calculate_atr_fast(w)
        lv == ScalpingEngine_calculate_scalp_levels(w.close, atr, signal_type)
    IN  IF signal_type = "CALL" THEN <<lv[2] - w.close, w.close - lv[1]>>
        ELSE IF signal_type = "PUT" THEN <<w.close - lv[2], lv[1] - w.close>>
        ELSE <<(atr * 15) \div 10, atr>>

ScalpingEngine_rr_rejects(signal_type, reward, risk) ==
    signal_type # "WAIT" /\ RatioLT(reward, risk, 12)

ScalpingEngine_analyze(w) ==
    IF w.n < 50 THEN ScalpingEngine_wait_signal("Dados insuficientes")
    ELSE
    LET ema_9 == ScalpingIndicators_calculate_ema(w, 9)
        ema_21 == ScalpingIndicators_calculate_ema(w, 21)
        atr == ScalpingIndicators_calculate_atr_fast(w)
        micro_trend == ScalpingIndicators_detect_micro_trend(w, ema_9, ema_21)
        volatility_spike == ScalpingIndicators_detect_volatility_spike(w)
        volume_ratio == ScalpingIndicators_check_volume_surge(w)
        setup == ScalpingEngine_setup(w)
        signal_type == setup[1]
        lv == ScalpingEngine_calculate_scalp_levels(w.close, atr, signal_type)
        rr == ScalpingEngine_reward_risk(w)
    IN  IF volatility_spike
        THEN ScalpingEngine_wait_signal("Volatilidade extrema detectada")
        ELSE IF volume_ratio < 80
        THEN ScalpingEngine_wait_signal("Volume muito baixo")
        ELSE IF micro_trend = "RANGING"
        THEN ScalpingEngine_wait_signal("Mercado sem direcao clara")
        ELSE IF ScalpingEngine_rr_rejects(signal_type, rr[1], rr[2])
        THEN ScalpingEngine_wait_signal("Risk/Reward insuficiente")
        ELSE [signal |-> signal_type, score |-> setup[2],
              confidence |-> Confidence(setup[2]),
              entry_price |-> w.close, stop_loss |-> lv[1],
              take_profit_1 |-> lv[2], take_profit_2 |-> lv[3],
              reasons |-> setup[3], warnings |-> <<>>]

\* <<ema_9, ema_21>>: rising, rising weakly, falling, flat
ScalpingEmas ==
    {<<100200, 100000>>, <<100050, 100000>>, <<99800, 100000>>,
     <<100000, 100000>>}

\* w.above_9 and w.below_9 agree with the last close: a of the four closes
\* before it are above ema_9, the other four minus a below
ScalpingEngineWindows ==
    { [engine |-> "ScalpingEngine", n |-> n, mean |-> 100000,
       ema_9 |-> e[1], ema_21 |-> e[2], close |-> e[1] + d,
       above_9 |-> a + (IF d > 0 THEN 1 ELSE 0),
       below_9 |-> (4 - a) + (IF d < 0 THEN 1 ELSE 0),
       rsi |-> r, momentum |-> m, atr |-> t, volume_ratio |-> v,
       spike |-> s] :
      n \in {49, 50}, e \in ScalpingEmas, d \in {-200, -20, 0, 20, 200, 400},
      a \in {0, 4}, r \in {30, 45, 55, 70}, m \in {-30, 10, 30},
      t \in {0, 100}, v \in {70, 100, 130}, s \in BOOLEAN }

(***************************************************************************)
(* CryptoTradingEngine (crypto_trading_engine.py)                          *)
(***************************************************************************)

CryptoIndicators_calculate_ema(w, period) ==
    IF w.n < period THEN w.mean
    ELSE IF period = 20 THEN w.ema_20
    ELSE IF period = 50 THEN w.ema_50
    ELSE w.ema_200

CryptoIndicators_calculate_rsi(w) ==
    IF w.n < 14 + 1 THEN 50 ELSE w.rsi

CryptoIndicators_calculate_atr(w) ==
    IF w.n < 14 THEN 0 ELSE w.atr

\* w.ema_20_prev: the EMA 20 of the closes without the last ten
CryptoIndicators_detect_market_context(w, ema_20, ema_50, ema_200, current_price) ==
    LET slope_num == IF w.n >= 20 THEN ema_20 - w.ema_20_prev ELSE 0
        above_200 == current_price > ema_200
        above_50 == current_price > ema_50
        ema_aligned_up == ema_20 > ema_50 /\ ema_50 > ema_200
        ema_aligned_down == ema_20 < ema_50 /\ ema_50 < ema_200
        is_ranging == /\ Abs(ema_20 - ema_50) * 100 < ema_50
                      /\ Abs(ema_50 - ema_200) * 100 < 2 * ema_200
    IN  IF is_ranging THEN "RANGING"
        ELSE IF ema_aligned_up /\ above_200 /\ slope_num * 1000 > 5 * ema_20
        THEN "STRONG_UPTREND"
        ELSE IF ema_aligned_down /\ ~above_200
                /\ slope_num * 1000 < -5 * ema_20
        THEN "STRONG_DOWNTREND"
        ELSE IF ema_20 > ema_50 /\ above_50 THEN "UPTREND"
        ELSE IF ema_20 < ema_50 /\ ~above_50 THEN "DOWNTREND"
        ELSE "RANGING"

\* in hundredths
CryptoIndicators_calculate_volume_ratio(w) ==
    IF w.n < 20 THEN 100 ELSE w.volume_ratio

CryptoIndicators_detect_volatility_level(atr, current_price) ==
    IF PctGT(atr, current_price, 3000) THEN "HIGH"
    ELSE IF PctGT(atr, current_price, 1500) THEN "MEDIUM"
    ELSE "LOW"

\* <<signal_type, score, reasons>>
CryptoTradingEngine_analyze_uptrend_setup(price, ema20, ema50, ema200, rsi, vol_ratio, context) ==
    LET above_20 == price > ema20
        above_50 == price > ema50
        above_200 == price > ema200
        d == price - ema20
        p1 == IF above_20 /\ above_50 /\ above_200 THEN 30
              ELSE IF above_20 /\ above_50 THEN 20
              ELSE IF above_20 THEN 10
              ELSE 0
        p2 == IF PctGE(d, ema20, 100) /\ PctLE(d, ema20, 1000) THEN 25
              ELSE IF PctGE(d, ema20, 0) /\ PctLE(d, ema20, 100) THEN 20
              ELSE IF PctGT(d, ema20, 1000) /\ PctLE(d, ema20, 2000) THEN 15
              ELSE 0
        p3 == IF 40 <= rsi /\ rsi <= 65 THEN 20
              ELSE IF 30 <= rsi /\ rsi < 40 THEN 15
              ELSE IF 65 < rsi /\ rsi <= 75 THEN 10
              ELSE 0
        p4 == IF vol_ratio >= 150 THEN 15
              ELSE IF vol_ratio >= 120 THEN 10
              ELSE 0
        p5 == IF context = "STRONG_UPTREND" THEN 10
              ELSE IF context = "UPTREND" THEN 5
              ELSE 0
        score == p1 + p2 + p3 + p4 + p5
        reasons == (IF p1 > 0 THEN <<"price">> ELSE <<>>)
                   \o (IF p2 > 0 THEN <<"pullback">> ELSE <<>>)
                   \o (IF p3 > 0 THEN <<"rsi">> ELSE <<>>)
                   \o (IF p4 > 0 THEN <<"volume">> ELSE <<>>)
                   \o (IF p5 > 0 THEN <<"context">> ELSE <<>>)
    IN  <<IF score >= 60 THEN "CALL" ELSE "WAIT", score, reasons>>

\* <<signal_type, score, reasons>>
CryptoTradingEngine_analyze_downtrend_setup(price, ema20, ema50, ema200, rsi, vol_ratio, context) ==
    LET below_20 == price < ema20
        below_50 == price < ema50
        below_200 == price < ema200
        d == ema20 - price
        p1 == IF below_20 /\ below_50 /\ below_200 THEN 30
              ELSE IF below_20 /\ below_50 THEN 20
              ELSE IF below_20 THEN 10
              ELSE 0
        p2 == IF PctGE(d, ema20, 100) /\ PctLE(d, ema20, 1000) THEN 25
              ELSE IF PctGE(d, ema20, 0) /\ PctLE(d, ema20, 100) THEN 20
              ELSE IF PctGT(d, ema20, 1000) /\ PctLE(d, ema20, 2000) THEN 15
              ELSE 0
        p3 == IF 35 <= rsi /\ rsi <= 60 THEN 20
              ELSE IF 60 < rsi /\ rsi <= 70 THEN 15
              ELSE IF 25 <= rsi /\ rsi < 35 THEN 10
              ELSE 0
        p4 == IF vol_ratio >= 150 THEN 15
              ELSE IF vol_ratio >= 120 THEN 10
              ELSE 0
        p5 == IF context = "STRONG_DOWNTREND" THEN 10
              ELSE IF context = "DOWNTREND" THEN 5
              ELSE 0
        score == p1 + p2 + p3 + p4 + p5
        reasons == (IF p1 > 0 THEN <<"price">> ELSE <<>>)
                   \o (IF p2 > 0 THEN <<"pullback">> ELSE <<>>)
                   \o (IF p3 > 0 THEN <<"rsi">> ELSE <<>>)
                   \o (IF p4 > 0 THEN <<"volume">> ELSE <<>>)
                   \o (IF p5 > 0 THEN <<"context">> ELSE <<>>)
    IN  <<IF score >= 60 THEN "PUT" ELSE "WAIT", score, reasons>>

\* <<stop_loss, tp1, tp2, tp3>>
CryptoTradingEngine_calculate_crypto_levels(entry, atr, signal, volatility) ==
    LET sl_multiplier == IF volatility = "HIGH" THEN 30
                         ELSE IF volatility = "MEDIUM" THEN 25
                         ELSE 20
        sl_distance == (atr * sl_multiplier) \div 10
        tp1_distance == sl_distance * 2
        tp2_distance == (sl_distance * 35) \div 10
        tp3_distance == sl_distance * 5
    IN  IF signal = "PUT"
        THEN <<entry + sl_distance, entry - tp1_distance,
               entry - tp2_distance, entry - tp3_distance>>
        ELSE <<entry - sl_distance, entry + tp1_distance,
               entry + tp2_distance, entry + tp3_distance>>

\* the strategy choice with RANGING treated as an uptrend
CryptoTradingEngine_strategy_ranging_as_uptrend(market_context) ==
    IF market_context \in {"STRONG_UPTREND", "UPTREND", "RANGING"} THEN "CALL"
    ELSE IF market_context \in {"STRONG_DOWNTREND", "DOWNTREND"} THEN "PUT"
    ELSE "WAIT"

\* the side whose setup is analysed in a market context; "WAIT" for none
CryptoTradingEngine_strategy(market_context) ==
    IF market_context = "RANGING" THEN "WAIT"
    ELSE IF market_context \in {"STRONG_UPTREND", "UPTREND"} THEN "CALL"
    ELSE IF market_context \in {"STRONG_DOWNTREND", "DOWNTREND"} THEN "PUT"
    ELSE "WAIT"

\* <<market_context, volatility, signal_type, score, reasons>> before the
\* volatility filter
CryptoTradingEngine_setup(w) ==
    LET ema_20 == CryptoIndicators_calculate_ema(w, 20)
        ema_50 == CryptoIndicators_calculate_ema(w, 50)
        ema_200 == IF w.n >= 200 THEN CryptoIndicators_calculate_ema(w, 200)
                   ELSE ema_50
        rsi == CryptoIndicators_calculate_rsi(w)
        atr == CryptoIndicators_calculate_atr(w)
        volume_ratio == CryptoIndicators_calculate_volume_ratio(w)
        market_context ==
            CryptoIndicators_detect_market_context(w, ema_20, ema_50, ema_200,
                                                   w.close)
        volatility == CryptoIndicators_detect_volatility_level(atr, w.close)
        strategy == CryptoTradingEngine_strategy(market_context)
        s == IF strategy = "CALL"
             THEN CryptoTradingEngine_analyze_uptrend_setup(
                      w.close, ema_20, ema_50, ema_200, rsi, volume_ratio,
                      market_context)
             ELSE IF strategy = "PUT"
             THEN CryptoTradingEngine_analyze_downtrend_setup(
                      w.close, ema_20, ema_50, ema_200, rsi, volume_ratio,
                      market_context)
             ELSE <<"WAIT", 0, <<>>>>
    IN  <<market_context, volatility, s[1], s[2], s[3]>>

\* signal_type after the filter of extreme volatility
CryptoTradingEngine_volatility_filter(signal_type, score, volatility) ==
    IF volatility = "HIGH" /\ score < 75 THEN "WAIT" ELSE signal_type

\* signal_type after the risk/reward validation
CryptoTradingEngine_validate_rr(signal_type, reward_1, risk) ==
    IF signal_type # "WAIT" /\ RatioLT(reward_1, risk, 20)
    THEN "WAIT" ELSE signal_type

\* the signal built from the setup st and the ATR: volatility filter,
\* levels, risk/reward validation
CryptoTradingEngine_signal(w, st, atr) ==
    LET market_context == st[1]
        volatility == st[2]
        score == st[4]
        signal_0 == CryptoTradingEngine_volatility_filter(st[3], score,
                                                          volatility)
        lv == CryptoTradingEngine_calculate_crypto_levels(w.close, atr,
                                                          signal_0, volatility)
        risk == IF signal_0 = "CALL" THEN w.close - lv[1]
                ELSE IF signal_0 = "PUT" THEN lv[1] - w.close
                ELSE atr * 2
        reward_1 == IF signal_0 = "CALL" THEN lv[2] - w.close
                    ELSE IF signal_0 = "PUT" THEN w.close - lv[2]
                    ELSE risk * 2
        reward_2 == IF signal_0 = "CALL" THEN lv[3] - w.close
                    ELSE IF signal_0 = "PUT" THEN w.close - lv[3]
                    ELSE risk * 3
        signal_type == CryptoTradingEngine_validate_rr(signal_0, reward_1, risk)
        warnings == (IF market_context = "RANGING" THEN <<"Mercado LATERAL">>
                     ELSE <<>>)
                    \o (IF volatility = "HIGH" THEN <<"Volatilidade ALTA">>
                        ELSE <<>>)
                    \o (IF volatility = "HIGH" /\ score < 75
                        THEN <<"Score insuficiente para volatilidade alta">>
                        ELSE <<>>)
                    \o (IF signal_0 # signal_type
                        THEN <<"Risk/Reward insuficiente">> ELSE <<>>)
    IN  [signal |-> signal_type, score |-> score,
         confidence |-> Confidence(score),
         entry_price |-> w.close, stop_loss |-> lv[1],
         take_profit_1 |-> lv[2], take_profit_2 |-> lv[3],
         take_profit_3 |-> lv[4],
         market_context |-> market_context, volatility_level |-> volatility,
         atr_value |-> atr, risk |-> risk, reward_1 |-> reward_1,
         risk_reward_1 |-> Ratio100(reward_1, risk),
         risk_reward_2 |-> Ratio100(reward_2, risk),
         reasons |-> st[5], warnings |-> warnings]

CryptoTradingEngine_analyze(w) ==
    IF w.n = 0 THEN IndexError
    ELSE CryptoTradingEngine_signal(w, CryptoTradingEngine_setup(w),
                                    CryptoIndicators_calculate_atr(w))

\* <<ema_20, ema_50, ema_200>>: rising, falling, flat, crossed
CryptoEmas ==
    {<<102000, 100000, 97000>>, <<98000, 100000, 103000>>,
     <<100500, 100000, 99000>>, <<102000, 100000, 101000>>}

CryptoTradingEngineWindows ==
    { [engine |-> "CryptoTradingEngine", n |-> n, mean |-> 100000,
       ema_20 |-> e[1], ema_50 |-> e[2], ema_200 |-> e[3],
       ema_20_prev |-> e[1] - sl, close |-> e[1] + d,
       rsi |-> r, atr |-> a, volume_ratio |-> v] :
      n \in {100, 200}, e \in CryptoEmas, sl \in {-1000, 0, 1000},
      d \in {-1500, -500, 500, 1500, 3000}, r \in {30, 50, 70},
      a \in {0, 1000, 2000, 4000}, v \in {100, 130, 160} }
    \cup { [engine |-> "CryptoTradingEngine", n |-> 0] }

(***************************************************************************)
(* ForexEngine (forex_engine_v2.py), pair EUR/USD.  Prices are in units of *)
(* 0.00001 (a tenth of a pip), pip counts in hundredths of a pip.          *)
(***************************************************************************)

ForexIndicators_calculate_ema(w, period) ==
    IF w.n < period THEN w.mean
    ELSE IF period = 50 THEN w.ema_50 ELSE w.ema_200

ForexIndicators_calculate_atr(w) ==
    IF w.n < 14 THEN 0 ELSE w.atr

ForexIndicators_detect_market_structure(w) ==
    IF w.n < 20 THEN "RANGING"
    ELSE IF w.second_half_high > w.first_half_high
            /\ w.second_half_low > w.first_half_low
    THEN "BULLISH"
    ELSE IF w.second_half_high < w.first_half_high
            /\ w.second_half_low < w.first_half_low
    THEN "BEARISH"
    ELSE "RANGING"

\* datetime.utcfromtimestamp(timestamp).hour
UtcHour(timestamp) == (timestamp \div 3600) % 24

\* the same tests with the Asian session tried before the London one
ForexIndicators_get_trading_session_asia_first(timestamp) ==
    LET hour == UtcHour(timestamp)
    IN  IF 13 <= hour /\ hour < 17 THEN "OVERLAP"
        ELSE IF 0 <= hour /\ hour < 9 THEN "ASIA"
        ELSE IF 8 <= hour /\ hour < 17 THEN "LONDON"
        ELSE IF 13 <= hour /\ hour < 22 THEN "NEW_YORK"
        ELSE "OFF_HOURS"

ForexIndicators_get_trading_session(timestamp) ==
    LET hour == UtcHour(timestamp)
    IN  IF 13 <= hour /\ hour < 17 THEN "OVERLAP"
        ELSE IF 8 <= hour /\ hour < 17 THEN "LONDON"
        ELSE IF 13 <= hour /\ hour < 22 THEN "NEW_YORK"
        ELSE IF 0 <= hour /\ hour < 9 THEN "ASIA"
        ELSE "OFF_HOURS"

\* price_diff * 10000
ForexIndicators_pips_from_price(price_diff) == price_diff * 10

\* pips * pip_value, with pip_value = 0.0001
ForexEngine_price_from_pips(pips) == pips \div 10

ForexEngine_wait_signal(reason) ==
    [signal |-> "WAIT", score |-> 0, confidence |-> 0,
     entry_price |-> 0, stop_loss |-> 0, stop_loss_pips |-> 0,
     take_profit_1 |-> 0, take_profit_1_pips |-> 0,
     take_profit_2 |-> 0, take_profit_2_pips |-> 0,
     market_structure |-> "RANGING", session |-> "OFF_HOURS",
     trend_confirmed |-> FALSE, risk_reward |-> 0,
     reasons |-> <<>>, warnings |-> <<reason>>]

\* "BULLISH", "BEARISH" or "" when the EMAs do not confirm a trend
ForexEngine_trend_direction(current_price, ema_50, ema_200) ==
    IF current_price > ema_50 /\ ema_50 > ema_200 THEN "BULLISH"
    ELSE IF current_price < ema_50 /\ ema_50 < ema_200 THEN "BEARISH"
    ELSE ""

\* the points of the entry analysis, the same on both sides: d50 and d200
\* are the distances to the EMAs on the side of the trade
ForexEngine_entry_score(d50, ema_50, d200, ema_200, aligned, session, atr_pips) ==
    LET p1 == IF PctGE(d50, ema_50, -100) /\ PctLE(d50, ema_50, 300) THEN 30
              ELSE IF PctGT(d50, ema_50, 300) /\ PctLE(d50, ema_50, 500)
              THEN 20
              ELSE 0
        p2 == IF aligned THEN 25 ELSE 0
        p3 == IF session = "OVERLAP" THEN 20
              ELSE IF session \in {"LONDON", "NEW_YORK"} THEN 15
              ELSE 0
        p4 == IF 1500 <= atr_pips /\ atr_pips <= 4000 THEN 15
              ELSE IF 1000 <= atr_pips /\ atr_pips < 1500 THEN 10
              ELSE 0
        p5 == IF PctGT(d200, ema_200, 500) THEN 10
              ELSE IF d200 > 0 THEN 5
              ELSE 0
    IN  <<p1 + p2 + p3 + p4 + p5,
          (IF p1 > 0 THEN <<"pullback">> ELSE <<>>)
          \o (IF p2 > 0 THEN <<"structure">> ELSE <<>>)
          \o (IF p3 > 0 THEN <<"session">> ELSE <<>>)
          \o (IF p4 > 0 THEN <<"atr">> ELSE <<>>)
          \o (IF p5 > 0 THEN <<"ema200">> ELSE <<>>)>>

\* <<signal_type, score, reasons>>
ForexEngine_analyze_bullish_entry(price, ema_50, ema_200, structure, session, atr_pips) ==
    LET e == ForexEngine_entry_score(price - ema_50, ema_50,
                                     price - ema_200, ema_200,
                                     structure = "BULLISH", session, atr_pips)
    IN  <<IF e[1] >= 70 THEN "CALL" ELSE "WAIT", e[1], e[2]>>

\* <<signal_type, score, reasons>>
ForexEngine_analyze_bearish_entry(price, ema_50, ema_200, structure, session, atr_pips) ==
    LET e == ForexEngine_entry_score(ema_50 - price, ema_50,
                                     ema_200 - price, ema_200,
                                     structure = "BEARISH", session, atr_pips)
    IN  <<IF e[1] >= 70 THEN "PUT" ELSE "WAIT", e[1], e[2]>>

\* max(10, atr_pips * 1.5): the stop without its upper limit
ForexEngine_sl_pips_unclamped(atr_pips) ==
    Max(1000, (atr_pips * 15) \div 10)

\* max(10, min(15, atr_pips * 1.5))
ForexEngine_sl_pips(atr_pips) ==
    Max(1000, Min(1500, (atr_pips * 15) \div 10))

\* the signal built once every filter has passed
ForexSignal(w, entry, session, market_structure, atr_pips) ==
    LET signal_type == entry[1]
        sl_pips == ForexEngine_sl_pips(atr_pips)
        tp1_pips == (sl_pips * 25) \div 10
        tp2_pips == sl_pips * 4
        dir == IF signal_type = "CALL" THEN 1
               ELSE IF signal_type = "PUT" THEN -1
               ELSE 0
    IN  [signal |-> signal_type, score |-> entry[2],
         confidence |-> Confidence(entry[2]),
         entry_price |-> w.close,
         stop_loss |-> w.close - dir * ForexEngine_price_from_pips(sl_pips),
         stop_loss_pips |-> sl_pips,
         take_profit_1 |-> w.close + dir * ForexEngine_price_from_pips(tp1_pips),
         take_profit_1_pips |-> tp1_pips,
         take_profit_2 |-> w.close + dir * ForexEngine_price_from_pips(tp2_pips),
         take_profit_2_pips |-> tp2_pips,
         market_structure |-> market_structure, session |-> session,
         trend_confirmed |-> TRUE,
         risk_reward |-> (tp1_pips * 100) \div sl_pips,
         reasons |-> entry[3], warnings |-> <<>>]

ForexEngine_analyze(w) ==
    IF w.n < 200 THEN ForexEngine_wait_signal("Dados insuficientes")
    ELSE
    LET ema_50 == ForexIndicators_calculate_ema(w, 50)
        ema_200 == ForexIndicators_calculate_ema(w, 200)
        atr == ForexIndicators_calculate_atr(w)
        market_structure == ForexIndicators_detect_market_structure(w)
        session == ForexIndicators_get_trading_session(w.timestamp)
        atr_pips == ForexIndicators_pips_from_price(atr)
        trend_direction == ForexEngine_trend_direction(w.close, ema_50, ema_200)
        entry == IF trend_direction = "BULLISH"
                 THEN ForexEngine_analyze_bullish_entry(
                          w.close, ema_50, ema_200, market_structure, session,
                          atr_pips)
                 ELSE ForexEngine_analyze_bearish_entry(
                          w.close, ema_50, ema_200, market_structure, session,
                          atr_pips)
    IN  IF market_structure = "RANGING"
        THEN ForexEngine_wait_signal("Mercado em RANGING")
        ELSE IF session = "OFF_HOURS"
        THEN ForexEngine_wait_signal("Fora do horario de sessao principal")
        ELSE IF atr_pips < 1000
        THEN ForexEngine_wait_signal("ATR muito baixo")
        ELSE IF trend_direction = ""
        THEN ForexEngine_wait_signal("Tendencia nao confirmada pelas EMAs")
        ELSE IF trend_direction # market_structure
        THEN ForexEngine_wait_signal("Estrutura nao alinha com tendencia")
        ELSE IF entry[2] < 70
        THEN ForexEngine_wait_signal("Score insuficiente")
        ELSE ForexSignal(w, entry, session, market_structure, atr_pips)

\* <<ema_50, ema_200>>: rising, rising with the EMAs close, falling, flat
ForexEmas ==
    {<<110000, 109000>>, <<110000, 109800>>, <<110000, 111000>>,
     <<110000, 110000>>}

\* the first timestamp of the windows, 22:00 UTC, and the 24 hours after it
FirstTimestamp == 1699999200
Timestamps == { FirstTimestamp + h * 3600 : h \in 0..23 }

\* <<rise of the highs, rise of the lows>> from the first ten of the last
\* twenty candles to the last ten
ForexStructures == {<<400, 400>>, <<-400, -400>>, <<400, -400>>, <<0, 400>>}

ForexEngineWindows ==
    { [engine |-> "ForexEngine", n |-> n, mean |-> 110000,
       ema_50 |-> e[1], ema_200 |-> e[2], close |-> e[1] + d, atr |-> a,
       second_half_high |-> e[1] + d + 300,
       first_half_high |-> e[1] + d + 300 - st[1],
       second_half_low |-> e[1] + d - 300,
       first_half_low |-> e[1] + d - 300 - st[2],
       timestamp |-> t] :
      n \in {199, 200}, e \in ForexEmas, d \in {-400, -200, 100, 400, 800},
      a \in {50, 120, 200, 450}, st \in ForexStructures, t \in Timestamps }

(***************************************************************************)
(* OptimizedForexEngine (forex_engine_v3_optimized.py), pair EUR/USD.  Its *)
(* calculate_ema, calculate_atr, get_trading_session and pips_from_price   *)
(* repeat the code of forex_engine_v2.py.                                  *)
(***************************************************************************)

OptimizedForexIndicators_detect_market_structure(w) ==
    IF w.n < 30 THEN "RANGING"
    ELSE IF /\ w.part3_high > w.part2_high /\ w.part2_high > w.part1_high
            /\ w.part3_low > w.part2_low /\ w.part2_low > w.part1_low
    THEN "BULLISH"
    ELSE IF /\ w.part3_high < w.part2_high /\ w.part2_high < w.part1_high
            /\ w.part3_low < w.part2_low /\ w.part2_low < w.part1_low
    THEN "BEARISH"
    ELSE "RANGING"

\* w.last2_bullish, w.last2_bearish: how many of the last two candles close
\* above, below their open
OptimizedForexIndicators_check_candle_confirmation(w, signal_type) ==
    IF w.n < 2 THEN FALSE
    ELSE IF signal_type = "BULLISH" THEN w.last2_bullish >= 2
    ELSE w.last2_bearish >= 2

OptimizedForexEngine_wait_signal(reason) ==
    [signal |-> "WAIT", score |-> 0, confidence |-> 0,
     entry_price |-> 0, stop_loss |-> 0, stop_loss_pips |-> 0,
     take_profit_1 |-> 0, take_profit_1_pips |-> 0,
     take_profit_2 |-> 0, take_profit_2_pips |-> 0,
     market_structure |-> "RANGING", session |-> "OFF_HOURS",
     trend_confirmed |-> FALSE, risk_reward |-> 0,
     reasons |-> <<>>, warnings |-> <<reason>>]

\* the points of the entry analysis, the same on both sides: d50 is the
\* distance to the EMA 50 on the side of the trade
OptimizedForexEngine_entry_score(d50, ema_50, aligned, session, atr_pips) ==
    LET p1 == IF PctGE(d50, ema_50, -50) /\ PctLE(d50, ema_50, 200) THEN 35
              ELSE IF PctGT(d50, ema_50, 200) /\ PctLE(d50, ema_50, 400)
              THEN 25
              ELSE 0
        p2 == IF aligned THEN 25 ELSE 0
        p3 == IF session = "OVERLAP" THEN 25
              ELSE IF session = "LONDON" THEN 20
              ELSE IF session = "NEW_YORK" THEN 15
              ELSE 0
        p4 == IF 1800 <= atr_pips /\ atr_pips <= 3500 THEN 15
              ELSE IF 1500 <= atr_pips /\ atr_pips < 1800 THEN 10
              ELSE 0
    IN  <<p1 + p2 + p3 + p4,
          (IF p1 > 0 THEN <<"pullback">> ELSE <<"pullback off">>)
          \o (IF p2 > 0 THEN <<"structure">> ELSE <<>>)
          \o (IF p3 > 0 THEN <<"session">> ELSE <<>>)
          \o (IF p4 > 0 THEN <<"atr">> ELSE <<>>)>>

\* <<signal_type, score, reasons>>
OptimizedForexEngine_analyze_bullish_entry(price, ema_50, structure, session, atr_pips) ==
    LET e == OptimizedForexEngine_entry_score(price - ema_50, ema_50,
                                              structure = "BULLISH", session,
                                              atr_pips)
    IN  <<IF e[1] >= 80 THEN "CALL" ELSE "WAIT", e[1], e[2]>>

\* <<signal_type, score, reasons>>
OptimizedForexEngine_analyze_bearish_entry(price, ema_50, structure, session, atr_pips) ==
    LET e == OptimizedForexEngine_entry_score(ema_50 - price, ema_50,
                                              structure = "BEARISH", session,
                                              atr_pips)
    IN  <<IF e[1] >= 80 THEN "PUT" ELSE "WAIT", e[1], e[2]>>

OptimizedForexEngine_analyze(w) ==
    IF w.n < 200 THEN OptimizedForexEngine_wait_signal("Dados insuficientes")
    ELSE
    LET ema_50 == ForexIndicators_calculate_ema(w, 50)
        ema_200 == ForexIndicators_calculate_ema(w, 200)
        atr == ForexIndicators_calculate_atr(w)
        market_structure == OptimizedForexIndicators_detect_market_structure(w)
        session == ForexIndicators_get_trading_session(w.timestamp)
        atr_pips == ForexIndicators_pips_from_price(atr)
        trend_direction == ForexEngine_trend_direction(w.close, ema_50, ema_200)
        entry == IF trend_direction = "BULLISH"
                 THEN OptimizedForexEngine_analyze_bullish_entry(
                          w.close, ema_50, market_structure, session, atr_pips)
                 ELSE OptimizedForexEngine_analyze_bearish_entry(
                          w.close, ema_50, market_structure, session, atr_pips)
    IN  IF market_structure = "RANGING"
        THEN OptimizedForexEngine_wait_signal("Mercado em RANGING")
        ELSE IF session = "ASIA"
        THEN OptimizedForexEngine_wait_signal("Sessao ASIA")
        ELSE IF session = "OFF_HOURS"
        THEN OptimizedForexEngine_wait_signal("Fora de horario")
        ELSE IF atr_pips < 1500
        THEN OptimizedForexEngine_wait_signal("ATR muito baixo")
        ELSE IF trend_direction = ""
        THEN OptimizedForexEngine_wait_signal("Tendencia nao confirmada")
        ELSE IF trend_direction # market_structure
        THEN OptimizedForexEngine_wait_signal("Estrutura nao alinha")
        ELSE IF ~OptimizedForexIndicators_check_candle_confirmation(
                     w, trend_direction)
        THEN OptimizedForexEngine_wait_signal("Aguardando confirmacao")
        ELSE IF entry[2] < 80
        THEN OptimizedForexEngine_wait_signal("Score insuficiente")
        ELSE ForexSignal(w, entry, session, market_structure, atr_pips)

\* <<rise of the highs and lows from the first to the second ten of the
\* last thirty candles, rise from the second to the last ten>>
OptimizedForexStructures == {<<400, 400>>, <<-400, -400>>, <<-400, 400>>}

OptimizedForexEngineWindows ==
    { [engine |-> "OptimizedForexEngine", n |-> n, mean |-> 110000,
       ema_50 |-> e[1], ema_200 |-> e[2], close |-> e[1] + d, atr |-> a,
       part3_high |-> e[1] + d + 300,
       part2_high |-> e[1] + d + 300 - st[2],
       part1_high |-> e[1] + d + 300 - st[2] - st[1],
       part3_low |-> e[1] + d - 300,
       part2_low |-> e[1] + d - 300 - st[2],
       part1_low |-> e[1] + d - 300 - st[2] - st[1],
       last2_bullish |-> c, last2_bearish |-> 2 - c,
       timestamp |-> t] :
      n \in {199, 200},
      e \in {<<110000, 109000>>, <<110000, 111000>>, <<110000, 110000>>},
      d \in {-300, -100, 100, 300, 800}, a \in {120, 160, 200, 450},
      st \in OptimizedForexStructures, c \in 0..2, t \in Timestamps }

(***************************************************************************)
(* The trade simulators.  A simulated trade is walked over the candles     *)
(* that follow the analysed window, one candle per loop iteration.         *)
(* Position fractions are in tenths (10 = the whole position).             *)
(***************************************************************************)

NoCandle == [high |-> 0, low |-> 0, close |-> 0]

\* the local variables of a simulator call on entering its loop
Trade(sim, s, tp3, pips, len, lookahead, total_profit) ==
    [sim |-> sim, signal |-> s.signal, entry |-> s.entry_price,
     sl |-> s.stop_loss, tp1 |-> s.take_profit_1, tp2 |-> s.take_profit_2,
     tp3 |-> tp3, sl_pips |-> pips[1], tp1_pips |-> pips[2],
     tp2_pips |-> pips[3], len |-> len, max_candles |-> Min(len, lookahead),
     i |-> 0, candle |-> NoCandle, position |-> 10,
     total_profit |-> total_profit, tp1_hit |-> FALSE, tp2_hit |-> FALSE,
     trailing_stop |-> s.stop_loss, extreme |-> s.entry_price,
     result |-> "OPEN", profit |-> 0, exit_reason |-> "", exit_price |-> 0]

\* return outcome, profit, exit_reason
Returned(t, result, profit, exit_reason, exit_price) ==
    [t EXCEPT !.result = result, !.profit = profit,
              !.exit_reason = exit_reason, !.exit_price = exit_price]

\* sl - entry, tp - entry, final - entry for a CALL; entry - ... for a PUT
Gain(signal_type, price, entry) ==
    IF signal_type = "CALL" THEN price - entry ELSE entry - price

\* the stop counted only when the price goes beyond it
StopReached_beyond(signal_type, candle, sl) ==
    IF signal_type = "CALL" THEN candle.low < sl ELSE candle.high > sl

\* candle.low <= sl for a CALL, candle.high >= sl for a PUT
StopReached(signal_type, candle, sl) ==
    IF signal_type = "CALL" THEN candle.low <= sl ELSE candle.high >= sl

\* the target counted only when the price goes beyond it
TargetReached_beyond(signal_type, candle, tp) ==
    IF signal_type = "CALL" THEN candle.high > tp ELSE candle.low < tp

\* candle.high >= tp for a CALL, candle.low <= tp for a PUT
TargetReached(signal_type, candle, tp) ==
    IF signal_type = "CALL" THEN candle.high >= tp ELSE candle.low <= tp

\* 'WIN' if total_profit > 0 else 'LOSS'
Outcome(total_profit) == IF total_profit > 0 THEN "WIN" ELSE "LOSS"

\* the candle examined by this iteration, counted
Examine(t, candle) == [t EXCEPT !.i = t.i + 1, !.candle = candle]

(***************************************************************************)
(* simulate_trade (test_final_v3.py) and simulate_realistic_trade          *)
(* (audit_complete.py): fixed stop, 70% closed at TP1, cost 0.25% of the   *)
(* entry price.  Profits are in 1/4000 of a price unit, so that            *)
(* total_cost = entry * 0.0025 is entry * 10 and a price difference held   *)
(* with position p tenths is difference * p * 400.                         *)
(***************************************************************************)

simulate_trade_max_candles == 30
simulate_realistic_trade_max_candles_5m == 10
simulate_realistic_trade_max_candles == 30

\* a cost of 0.5% of the entry price
simulate_trade_total_cost_doubled(entry) == entry * 20

\* total_cost = entry * 0.0025
simulate_trade_total_cost(entry) == entry * 10

simulate_trade(s, len) ==
    LET t == Trade("simulate_trade", s, 0, <<0, 0, 0>>, len,
                   simulate_trade_max_candles,
                   -simulate_trade_total_cost(s.entry_price))
    IN  IF len < 3 THEN Returned(t, "NEUTRAL", 0, "insufficient_data", 0)
        ELSE t

simulate_realistic_trade(s, len, timeframe) ==
    LET t == Trade("simulate_realistic_trade", s, 0, <<0, 0, 0>>, len,
                   IF timeframe = "5m"
                   THEN simulate_realistic_trade_max_candles_5m
                   ELSE simulate_realistic_trade_max_candles,
                   -simulate_trade_total_cost(s.entry_price))
    IN  IF len < 3 THEN Returned(t, "NEUTRAL", 0, "insufficient_data", 0)
        ELSE t

\* the time exit after the loop: the remaining position is closed at the
\* close of the last candle and charged total_cost * position
simulate_trade_time_exit(t) ==
    LET total_cost == simulate_trade_total_cost(t.entry)
        final == t.candle.close
        remaining == Gain(t.signal, final, t.entry) * t.position * 400
                     - (total_cost \div 10) * t.position
        total_profit == t.total_profit + remaining
    IN  Returned([t EXCEPT !.total_profit = total_profit],
                 Outcome(total_profit), total_profit, "time_exit", final)

\* one iteration of the loop, followed by the time exit when the candle
\* is the last one
simulate_trade_candle(t0, candle) ==
    LET t == Examine(t0, candle)
        total_cost == simulate_trade_total_cost(t.entry)
    IN  IF StopReached(t.signal, candle, t.sl)
        THEN Returned(t, "LOSS",
                      Gain(t.signal, t.sl, t.entry) * t.position * 400
                      - total_cost, "stop", t.sl)
        ELSE IF ~t.tp1_hit /\ TargetReached(t.signal, candle, t.tp2)
        THEN Returned(t, "WIN",
                      Gain(t.signal, t.tp2, t.entry) * t.position * 400
                      - total_cost, "tp2", t.tp2)
        ELSE LET t1 == IF ~t.tp1_hit /\ TargetReached(t.signal, candle, t.tp1)
                       THEN [t EXCEPT
                               !.total_profit =
                                   Gain(t.signal, t.tp1, t.entry) * 2800
                                   - (total_cost \div 10) * 7,
                               !.position = 3, !.tp1_hit = TRUE]
                       ELSE t
             IN  IF t1.i = t1.max_candles THEN simulate_trade_time_exit(t1)
                 ELSE t1

(***************************************************************************)
(* simulate_forex_trade_v2 (test_forex_v2_final.py): profits in pips, cost *)
(* 2 pips.  Pips are in hundredths as in the Forex engine, profits in      *)
(* 1/1000 of a pip (hundredths of a pip times tenths of the position).     *)
(***************************************************************************)

simulate_forex_trade_v2_max_candles == 48

\* total_cost_pips = spread_pips + commission_pips, in hundredths of a pip
simulate_forex_trade_v2_total_cost_pips == 150 + 50

simulate_forex_trade_v2(s, len) ==
    LET t == Trade("simulate_forex_trade_v2", s, 0,
                   <<s.stop_loss_pips, s.take_profit_1_pips,
                     s.take_profit_2_pips>>, len,
                   simulate_forex_trade_v2_max_candles,
                   -simulate_forex_trade_v2_total_cost_pips * 10)
    IN  IF len < 3 THEN Returned(t, "NEUTRAL", 0, "insufficient_data", 0)
        ELSE t

\* remaining_pips = ((final - entry) / 0.0001) * position
simulate_forex_trade_v2_time_exit(t) ==
    LET final == t.candle.close
        remaining_pips == Gain(t.signal, final, t.entry) * 10 * t.position
        total_profit_pips == t.total_profit + remaining_pips
    IN  Returned([t EXCEPT !.total_profit = total_profit_pips],
                 Outcome(total_profit_pips), total_profit_pips,
                 "time_exit", final)

simulate_forex_trade_v2_candle(t0, candle) ==
    LET t == Examine(t0, candle)
        total_cost_pips == simulate_forex_trade_v2_total_cost_pips
    IN  IF StopReached(t.signal, candle, t.sl)
        THEN Returned(t, "LOSS", (-t.sl_pips - total_cost_pips) * 10,
                      "stop", t.sl)
        ELSE IF ~t.tp1_hit /\ TargetReached(t.signal, candle, t.tp2)
        THEN Returned(t, "WIN", (t.tp2_pips - total_cost_pips) * 10,
                      "tp2", t.tp2)
        ELSE LET t1 == IF ~t.tp1_hit /\ TargetReached(t.signal, candle, t.tp1)
                       THEN [t EXCEPT
                               !.total_profit =
                                   (t.tp1_pips - total_cost_pips) * 7,
                               !.position = 3, !.tp1_hit = TRUE]
                       ELSE t
             IN  IF t1.i = t1.max_candles
                 THEN simulate_forex_trade_v2_time_exit(t1)
                 ELSE t1

(***************************************************************************)
(* simulate_scalp_trade (validate_scalping_5min.py): no cost, the profit   *)
(* accumulates over the exits.  Profits in tenths of a price unit.         *)
(* ReturnTotal and TimeExitTotal are the accumulate-and-return steps that  *)
(* simulate_trade_advanced repeats.                                        *)
(***************************************************************************)

simulate_scalp_trade_max_candles == 10

simulate_scalp_trade(s, len) ==
    LET t == Trade("simulate_scalp_trade", s, 0, <<0, 0, 0>>, len,
                   simulate_scalp_trade_max_candles, 0)
    IN  IF len < 2 THEN Returned(t, "NEUTRAL", 0, "insufficient_data", 0)
        ELSE t

\* total_profit += amount, then return
ReturnTotal(t, result, amount, exit_reason, exit_price) ==
    Returned([t EXCEPT !.total_profit = t.total_profit + amount],
             result, t.total_profit + amount, exit_reason, exit_price)

TimeExitTotal(t) ==
    LET final == t.candle.close
        total_profit == t.total_profit
                        + Gain(t.signal, final, t.entry) * t.position
    IN  ReturnTotal(t, Outcome(total_profit),
            Gain(t.signal, final, t.entry) * t.position, "time_exit", final)

simulate_scalp_trade_candle(t0, candle) ==
    LET t == Examine(t0, candle)
    IN  IF StopReached(t.signal, candle, t.sl)
        THEN ReturnTotal(t, "LOSS",
                 Gain(t.signal, t.sl, t.entry) * t.position, "stop", t.sl)
        ELSE IF ~t.tp1_hit /\ TargetReached(t.signal, candle, t.tp2)
        THEN ReturnTotal(t, "WIN",
                 Gain(t.signal, t.tp2, t.entry) * t.position, "tp2", t.tp2)
        ELSE LET t1 == IF ~t.tp1_hit /\ TargetReached(t.signal, candle, t.tp1)
                       THEN [t EXCEPT
                               !.total_profit =
                                   t.total_profit
                                   + Gain(t.signal, t.tp1, t.entry) * 7,
                               !.position = 3, !.tp1_hit = TRUE]
                       ELSE t
             IN  IF t1.i = t1.max_candles
                 THEN TimeExitTotal(t1)
                 ELSE t1

(***************************************************************************)
(* PaperTradingSimulator.execute_trade (final_system_ready.py).  Profits   *)
(* are fractions of position_size: (price - entry) / entry * position_size *)
(* is kept as (price - entry) * 4000 and position_size * 0.0025 as         *)
(* entry * 10, that is, in units of position_size / (4000 * entry).        *)
(***************************************************************************)

execute_trade_max_candles == 30

\* position_size * total_cost_pct
execute_trade_cost(entry) == entry * 10

\* len(candles_after) < 3: return, no trade is recorded
execute_trade(s, len) ==
    LET t == Trade("execute_trade", s, 0, <<0, 0, 0>>, len,
                   execute_trade_max_candles,
                   -execute_trade_cost(s.entry_price))
    IN  IF len < 3 THEN Returned(t, "NONE", 0, "insufficient_data", 0)
        ELSE t

\* total_profit += amount; exit_info; outcome = 'WIN' if total_profit > 0
\* else 'LOSS'
execute_trade_record(t, amount, exit_type, exit_price) ==
    Returned([t EXCEPT !.total_profit = t.total_profit + amount],
             Outcome(t.total_profit + amount), t.total_profit + amount,
             exit_type, exit_price)

execute_trade_candle(t0, candle) ==
    LET t == Examine(t0, candle)
    IN  IF StopReached(t.signal, candle, t.sl)
        THEN execute_trade_record(t, Gain(t.signal, t.sl, t.entry) * 4000,
                                  "stop", t.sl)
        ELSE IF ~t.tp1_hit /\ TargetReached(t.signal, candle, t.tp2)
        THEN execute_trade_record(t, Gain(t.signal, t.tp2, t.entry) * 4000,
                                  "tp2", t.tp2)
        ELSE LET t1 == IF ~t.tp1_hit /\ TargetReached(t.signal, candle, t.tp1)
                       THEN [t EXCEPT
                               !.total_profit =
                                   t.total_profit
                                   + Gain(t.signal, t.tp1, t.entry) * 2800,
                               !.position = 3, !.tp1_hit = TRUE]
                       ELSE t
             IN  IF t1.i = t1.max_candles
                 THEN execute_trade_record(t1,
                          Gain(t1.signal, candle.close, t1.entry)
                          * t1.position * 400,
                          "time_exit", candle.close)
                 ELSE t1

(***************************************************************************)
(* simulate_trade_advanced (validate_crypto_v2.py): three targets and a    *)
(* trailing stop, no cost.  Profits in tenths of a price unit.             *)
(***************************************************************************)

simulate_trade_advanced_max_candles == 30

simulate_trade_advanced(s, len) ==
    LET t == Trade("simulate_trade_advanced", s, s.take_profit_3,
                   <<0, 0, 0>>, len, simulate_trade_advanced_max_candles, 0)
    IN  IF len < 3 THEN Returned(t, "NEUTRAL", 0, "insufficient_data", 0)
        ELSE t

\* highest / lowest, and the stop moved to breakeven once the price has
\* gone halfway to TP1
simulate_trade_advanced_trail(t, candle) ==
    LET call == t.signal = "CALL"
        newer == IF call THEN candle.high > t.extreme
                 ELSE candle.low < t.extreme
        extreme == IF call THEN candle.high ELSE candle.low
    IN  IF ~newer THEN t
        ELSE IF ~t.tp1_hit
                /\ 2 * Gain(t.signal, extreme, t.entry)
                   >= Gain(t.signal, t.tp1, t.entry)
        THEN [t EXCEPT !.extreme = extreme,
                       !.trailing_stop =
                           IF call THEN Max(t.trailing_stop, t.entry)
                           ELSE Min(t.trailing_stop, t.entry)]
        ELSE [t EXCEPT !.extreme = extreme]

\* the same branches with the stop put back to the original level at TP1
simulate_trade_advanced_partials_stop_reset(t, candle) ==
    LET t2 == IF ~t.tp1_hit /\ TargetReached(t.signal, candle, t.tp2)
              THEN [t EXCEPT
                      !.total_profit =
                          t.total_profit + Gain(t.signal, t.tp2, t.entry) * 5,
                      !.position = 5, !.tp2_hit = TRUE,
                      !.trailing_stop = t.tp1]
              ELSE t
    IN  IF ~t2.tp1_hit /\ TargetReached(t2.signal, candle, t2.tp1)
        THEN [t2 EXCEPT
                !.total_profit =
                    t2.total_profit + Gain(t2.signal, t2.tp1, t2.entry) * 3,
                !.position = 7, !.tp1_hit = TRUE,
                !.trailing_stop = t2.sl]
        ELSE t2

\* the TP2 and TP1 branches, one after the other
simulate_trade_advanced_partials(t, candle) ==
    LET t2 == IF ~t.tp1_hit /\ TargetReached(t.signal, candle, t.tp2)
              THEN [t EXCEPT
                      !.total_profit =
                          t.total_profit + Gain(t.signal, t.tp2, t.entry) * 5,
                      !.position = 5, !.tp2_hit = TRUE,
                      !.trailing_stop = t.tp1]
              ELSE t
    IN  IF ~t2.tp1_hit /\ TargetReached(t2.signal, candle, t2.tp1)
        THEN [t2 EXCEPT
                !.total_profit =
                    t2.total_profit + Gain(t2.signal, t2.tp1, t2.entry) * 3,
                !.position = 7, !.tp1_hit = TRUE,
                !.trailing_stop = t2.entry]
        ELSE t2

simulate_trade_advanced_candle(t0, candle) ==
    LET t == simulate_trade_advanced_trail(Examine(t0, candle), candle)
    IN  IF StopReached(t.signal, candle, t.trailing_stop)
        THEN ReturnTotal(t, "LOSS",
                 Gain(t.signal, t.trailing_stop, t.entry) * t.position,
                 "stop", t.trailing_stop)
        ELSE IF ~t.tp1_hit /\ TargetReached(t.signal, candle, t.tp3)
        THEN ReturnTotal(t, "WIN",
                 Gain(t.signal, t.tp3, t.entry) * t.position, "tp3", t.tp3)
        ELSE LET t1 == simulate_trade_advanced_partials(t, candle)
             IN  IF t1.i = t1.max_candles
                 THEN TimeExitTotal(t1)
                 ELSE t1

(***************************************************************************)
(* simulate_trade_outcome_advanced (validate_real_market.py): trailing     *)
(* stop and a partial exit of 50% at TP1, no cost.  The script sends       *)
(* windows of 100 candles to /trade-setup (server.py), which runs          *)
(* TradingEngine(min_score=70, risk_reward_min=2.0).  Profits in tenths    *)
(* of a price unit.                                                        *)
(***************************************************************************)

simulate_trade_outcome_advanced_max_candles == 20
run_real_market_backtest_window_size == 100

simulate_trade_outcome_advanced(s, len) ==
    LET t == Trade("simulate_trade_outcome_advanced", s, 0, <<0, 0, 0>>,
                   len, simulate_trade_outcome_advanced_max_candles, 0)
    IN  IF len < 5 THEN Returned(t, "NEUTRAL", 0, "insufficient_data", 0)
        ELSE t

\* highest_price / lowest_price, and the stop moved to breakeven once the
\* price has gone halfway to TP1 (use_trailing is True in the script)
simulate_trade_outcome_advanced_trail(t, candle) ==
    LET call == t.signal = "CALL"
        newer == IF call THEN candle.high > t.extreme
                 ELSE candle.low < t.extreme
        extreme == IF call THEN candle.high ELSE candle.low
    IN  IF ~newer THEN t
        ELSE IF ~t.tp1_hit
                /\ 2 * Gain(t.signal, extreme, t.entry)
                   >= Gain(t.signal, t.tp1, t.entry)
        THEN [t EXCEPT !.extreme = extreme,
                       !.trailing_stop =
                           IF call THEN Max(t.trailing_stop, t.entry)
                           ELSE Min(t.trailing_stop, t.entry)]
        ELSE [t EXCEPT !.extreme = extreme]

simulate_trade_outcome_advanced_candle(t0, candle) ==
    LET t == simulate_trade_outcome_advanced_trail(Examine(t0, candle),
                                                   candle)
    IN  IF StopReached(t.signal, candle, t.trailing_stop)
        THEN ReturnTotal(t, "LOSS",
                 Gain(t.signal, t.trailing_stop, t.entry) * t.position,
                 "stop", t.trailing_stop)
        ELSE IF ~t.tp1_hit /\ TargetReached(t.signal, candle, t.tp2)
        THEN ReturnTotal(t, "WIN",
                 Gain(t.signal, t.tp2, t.entry) * t.position, "tp2", t.tp2)
        ELSE LET t1 == IF ~t.tp1_hit /\ TargetReached(t.signal, candle, t.tp1)
                       THEN [t EXCEPT
                               !.total_profit =
                                   t.total_profit
                                   + Gain(t.signal, t.tp1, t.entry) * 5,
                               !.position = 5, !.tp1_hit = TRUE,
                               !.trailing_stop = t.entry]
                       ELSE t
             IN  IF t1.i = t1.max_candles
                 THEN TimeExitTotal(t1)
                 ELSE t1

(***************************************************************************)
(* Backtester.run (trading_engine.py): only the candle at i + 1 is looked  *)
(* at.  Profits in hundredths of signal.risk_amount.                       *)
(***************************************************************************)

Backtester_run_window_size == 50

Backtester_run(s) ==
    Trade("Backtester_run", s, 0, <<0, 0, 0>>, 1, 1, 0)

\* the same candle test with TP1 looked at before the stop
Backtester_run_candle_target_first(t0, candle) ==
    LET t == Examine(t0, candle)
        hit_tp == TargetReached(t.signal, candle, t.tp1)
        hit_sl == ~hit_tp /\ StopReached(t.signal, candle, t.sl)
    IN  IF hit_tp
        THEN Returned(t, "WIN",
                      Ratio100(Abs(t.tp1 - t.entry), Abs(t.entry - t.sl)),
                      "tp1", t.tp1)
        ELSE IF hit_sl
        THEN Returned(t, "LOSS", -100, "stop", t.sl)
        ELSE Returned(t, "NONE", 0, "", 0)

\* hit_sl / hit_tp and the trade appended; nothing is appended when the
\* candle reaches neither level.  signal.risk_reward_1 is reward_1 / risk
\* of the signal's levels.
Backtester_run_candle(t0, candle) ==
    LET t == Examine(t0, candle)
        hit_sl == StopReached(t.signal, candle, t.sl)
        hit_tp == ~hit_sl /\ TargetReached(t.signal, candle, t.tp1)
    IN  IF hit_tp
        THEN Returned(t, "WIN",
                      Ratio100(Abs(t.tp1 - t.entry), Abs(t.entry - t.sl)),
                      "tp1", t.tp1)
        ELSE IF hit_sl
        THEN Returned(t, "LOSS", -100, "stop", t.sl)
        ELSE Returned(t, "NONE", 0, "", 0)

(***************************************************************************)
(* The engines, by name                                                    *)
(***************************************************************************)

Engines ==
    {"TradingEngine", "AdvancedTradingEngine", "ScalpingEngine",
     "CryptoTradingEngine", "ForexEngine", "OptimizedForexEngine"}

Windows(e) ==
    IF e = "TradingEngine" THEN TradingEngineWindows
    ELSE IF e = "AdvancedTradingEngine" THEN AdvancedTradingEngineWindows
    ELSE IF e = "ScalpingEngine" THEN ScalpingEngineWindows
    ELSE IF e = "CryptoTradingEngine" THEN CryptoTradingEngineWindows
    ELSE IF e = "ForexEngine" THEN ForexEngineWindows
    ELSE OptimizedForexEngineWindows

analyze(w) ==
    IF w.engine = "TradingEngine" THEN TradingEngine_analyze(w)
    ELSE IF w.engine = "AdvancedTradingEngine"
    THEN AdvancedTradingEngine_analyze(w)
    ELSE IF w.engine = "ScalpingEngine" THEN ScalpingEngine_analyze(w)
    ELSE IF w.engine = "CryptoTradingEngine"
    THEN CryptoTradingEngine_analyze(w)
    ELSE IF w.engine = "ForexEngine" THEN ForexEngine_analyze(w)
    ELSE OptimizedForexEngine_analyze(w)

\* the simulators each backtest script runs on the signals of its engine
SimulatorsOf(w) ==
    IF w.engine = "AdvancedTradingEngine"
    THEN {"simulate_trade", "execute_trade"}
    ELSE IF w.engine = "ScalpingEngine"
    THEN {"simulate_realistic_trade", "simulate_scalp_trade"}
    ELSE IF w.engine = "CryptoTradingEngine"
    THEN {"simulate_realistic_trade", "simulate_trade_advanced"}
    ELSE IF w.engine = "ForexEngine" THEN {"simulate_forex_trade_v2"}
    ELSE IF w.engine = "TradingEngine" /\ w.n = Backtester_run_window_size
    THEN {"Backtester_run"}
    ELSE IF w.engine = "TradingEngine"
            /\ w.n = run_real_market_backtest_window_size
    THEN {"simulate_trade_outcome_advanced"}
    ELSE {}

\* the lengths of candles_after: one candle short of the simulator's
\* minimum, the minimum, and the slice the backtest loop cuts
FutureLengths(sim) ==
    IF sim = "Backtester_run" THEN {1}
    ELSE IF sim = "simulate_scalp_trade" THEN {1, 2, 15}
    ELSE IF sim = "simulate_forex_trade_v2" THEN {2, 3, 48}
    ELSE IF sim = "simulate_trade_outcome_advanced" THEN {4, 5, 20}
    ELSE {2, 3, 30}

\* the call of the simulator: its early return or its state on entering
\* the loop
simulate(sim, engine, s, len) ==
    IF sim = "simulate_trade" THEN simulate_trade(s, len)
    ELSE IF sim = "simulate_realistic_trade"
    THEN simulate_realistic_trade(s, len,
             IF engine = "ScalpingEngine" THEN "5m" ELSE "1h")
    ELSE IF sim = "simulate_forex_trade_v2"
    THEN simulate_forex_trade_v2(s, len)
    ELSE IF sim = "simulate_scalp_trade" THEN simulate_scalp_trade(s, len)
    ELSE IF sim = "execute_trade" THEN execute_trade(s, len)
    ELSE IF sim = "simulate_trade_advanced"
    THEN simulate_trade_advanced(s, len)
    ELSE IF sim = "simulate_trade_outcome_advanced"
    THEN simulate_trade_outcome_advanced(s, len)
    ELSE Backtester_run(s)

\* one iteration of the simulator's loop
examine(t, candle) ==
    IF t.sim \in {"simulate_trade", "simulate_realistic_trade"}
    THEN simulate_trade_candle(t, candle)
    ELSE IF t.sim = "simulate_forex_trade_v2"
    THEN simulate_forex_trade_v2_candle(t, candle)
    ELSE IF t.sim = "simulate_scalp_trade"
    THEN simulate_scalp_trade_candle(t, candle)
    ELSE IF t.sim = "execute_trade" THEN execute_trade_candle(t, candle)
    ELSE IF t.sim = "simulate_trade_advanced"
    THEN simulate_trade_advanced_candle(t, candle)
    ELSE IF t.sim = "simulate_trade_outcome_advanced"
    THEN simulate_trade_outcome_advanced_candle(t, candle)
    ELSE Backtester_run_candle(t, candle)

\* entry + (tp1 - entry) * 0.5, on the price grid
Halfway(t) == t.entry + (t.tp1 - t.entry) \div 2

\* the prices a future candle is drawn from: the levels of the trade
Ladder(t) ==
    {t.sl, t.entry, Halfway(t), t.tp1, t.tp2}
    \cup (IF t.tp3 # 0 THEN {t.tp3} ELSE {})

\* the candles that may follow: low <= high, closing at either end
Candles(t) ==
    {c \in [high : Ladder(t), low : Ladder(t), close : Ladder(t)] :
        c.low <= c.high /\ c.close \in {c.low, c.high}}

(***************************************************************************)
(* The state machine                                                       *)
(***************************************************************************)

Init ==
    /\ phase = "idle"
    /\ win = NoWindow
    /\ sig = NoSignal
    /\ trade = NoTrade

\* one call of engine.analyze(window)
Analyze ==
    /\ phase = "idle"
    /\ \E e \in Engines : \E w \in Windows(e) :
          /\ win' = w
          /\ sig' = analyze(w)
    /\ phase' = "signal"
    /\ UNCHANGED trade

\* the caller drops the signal and moves to the next window
NextWindow ==
    /\ phase = "signal"
    /\ phase' = "idle"
    /\ win' = NoWindow
    /\ sig' = NoSignal
    /\ UNCHANGED trade

\* the backtest loop hands a CALL or PUT signal and the candles after the
\* window to its simulator
OpenTrade ==
    /\ phase = "signal"
    /\ sig.signal \in {"CALL", "PUT"}
    /\ \E sim \in SimulatorsOf(win) : \E len \in FutureLengths(sim) :
          LET t == simulate(sim, win.engine, sig, len)
          IN  /\ trade' = t
              /\ phase' = IF t.result = "OPEN" THEN "walk" ELSE "closed"
    /\ win' = NoWindow
    /\ sig' = NoSignal

\* the simulator examines the next candle of candles_after
Candle ==
    /\ phase = "walk"
    /\ \E c \in Candles(trade) :
          LET t == examine(trade, c)
          IN  /\ trade' = t
              /\ phase' = IF t.result = "OPEN" THEN "walk" ELSE "closed"
    /\ UNCHANGED <<win, sig>>

\* the simulator has returned; the loop moves to the next window
CloseTrade ==
    /\ phase = "closed"
    /\ phase' = "idle"
    /\ trade' = NoTrade
    /\ UNCHANGED <<win, sig>>

Next == Analyze \/ NextWindow \/ OpenTrade \/ Candle \/ CloseTrade

Spec == Init /\ [][Next]_vars


(***************************************************************************)
(* Properties of the signal engines                                        *)
(***************************************************************************)

Analysed == win.engine # "none"

C2_blocked_regime_waits ==
    Analysed =>
        /\ ( /\ win.engine = "AdvancedTradingEngine"
             /\ MarketAnalyzer_detect_market_condition(win)
                    \in {"CRASH", "PANIC"} )
           => sig.signal = "WAIT"
        /\ ( /\ win.engine = "CryptoTradingEngine"
             /\ win.n > 0
             /\ CryptoTradingEngine_setup(win)[1] = "RANGING" )
           => sig.signal = "WAIT"
        /\ ( /\ win.engine = "ScalpingEngine"
             /\ ScalpingIndicators_detect_micro_trend(
                    win, ScalpingIndicators_calculate_ema(win, 9),
                    ScalpingIndicators_calculate_ema(win, 21)) = "RANGING" )
           => sig.signal = "WAIT"
        /\ ( /\ win.engine = "ForexEngine"
             /\ ForexIndicators_detect_market_structure(win) = "RANGING" )
           => sig.signal = "WAIT"
        /\ ( /\ win.engine = "OptimizedForexEngine"
             /\ OptimizedForexIndicators_detect_market_structure(win)
                    = "RANGING" )
           => sig.signal = "WAIT"

\* a ranging crypto window whose readings would otherwise score a CALL:
\* price above the three EMAs and near the EMA 20, RSI 50, strong volume
C2_ranging_window_blocked ==
    /\ win.engine = "CryptoTradingEngine"
    /\ win.n = 200
    /\ sig.market_context = "RANGING"
    /\ win.close > win.ema_20 /\ win.ema_20 > win.ema_50
    /\ win.ema_50 > win.ema_200
    /\ win.rsi = 50 /\ win.volume_ratio = 160 /\ win.atr = 1000
    /\ sig.signal = "WAIT"

\* C3: AdvancedTradingEngine.analyze tests its gates in the order history,
\* regime, volatility, trend strength, volume, minimum score, risk/reward:
\* a WAIT carries exactly one warning, naming the first gate in this order
\* that fails, and a window failing no gate gets a CALL or a PUT.
C3_first_failing_gate ==
    win.engine = "AdvancedTradingEngine" =>
        LET ema_fast == AdvancedIndicators_calculate_ema(win, 12)
            ema_mid == AdvancedIndicators_calculate_ema(win, 26)
            ema_slow == AdvancedIndicators_calculate_ema(win, 50)
            regime == MarketAnalyzer_detect_market_condition(win)
            setup == AdvancedTradingEngine_setup(win)
            rr == AdvancedTradingEngine_reward_risk(win)
            gates ==
                << <<"Dados insuficientes", win.n < 100>>,
                   <<"Mercado em " \o regime, regime \in {"CRASH", "PANIC"}>>,
                   <<"Volatilidade extrema",
                     MarketAnalyzer_calculate_volatility(win) > 400>>,
                   <<"Tendencia fraca",
                     MarketAnalyzer_calculate_trend_strength(
                         win, ema_fast, ema_mid, ema_slow) < 40 * ema_slow>>,
                   <<"Volume baixo",
                     AdvancedIndicators_calculate_volume_profile(win) < 70>>,
                   <<"Score insuficiente",
                     setup[2] < (IF regime = "NORMAL" THEN 70 ELSE 80)>>,
                   <<"Risk/Reward insuficiente",
                     /\ setup[1] # "WAIT"
                     /\ RatioLT(rr[1], rr[2],
                                IF regime = "NORMAL" THEN 18 ELSE 22)>> >>
            failing == {i \in 1..7 : gates[i][2]}
            first == CHOOSE i \in failing : \A j \in failing : i <= j
        IN  IF failing = {} THEN sig.signal \in {"CALL", "PUT"}
            ELSE /\ sig.signal = "WAIT"
                 /\ sig.warnings = <<gates[first][1]>>

\* a window failing the volatility and the volume gates, turned away for
\* its volatility
C3_two_gates_fail ==
    /\ win.engine = "AdvancedTradingEngine"
    /\ win.n = 100
    /\ MarketAnalyzer_detect_market_condition(win) = "NORMAL"
    /\ MarketAnalyzer_calculate_volatility(win) > 400
    /\ AdvancedIndicators_calculate_volume_profile(win) < 70
    /\ sig.signal = "WAIT"
    /\ sig.warnings = <<"Volatilidade extrema">>

\* C4: a CALL or a PUT has a score of at least the minimum: 70 in regime
\* NORMAL and 80 in any other regime for AdvancedTradingEngine, min_score
\* for TradingEngine, 75 under HIGH volatility for CryptoTradingEngine.
C4_signal_meets_min_score ==
    (Analysed /\ sig.signal \in {"CALL", "PUT"}) =>
        /\ win.engine = "AdvancedTradingEngine" =>
               sig.score >= (IF MarketAnalyzer_detect_market_condition(win)
                                    = "NORMAL"
                             THEN 70 ELSE 80)
        /\ win.engine = "TradingEngine" => sig.score >= win.min_score
        /\ ( /\ win.engine = "CryptoTradingEngine"
             /\ CryptoIndicators_detect_volatility_level(
                    CryptoIndicators_calculate_atr(win), win.close) = "HIGH" )
           => sig.score >= 75

\* a TradingEngine CALL whose score is exactly min_score
C4_call_at_min_score ==
    /\ win.engine = "TradingEngine"
    /\ sig.signal = "CALL"
    /\ sig.score = win.min_score

\* C5: when the reward/risk ratio of take-profit 1 is below the minimum
\* (1.8 in NORMAL and 2.2 otherwise for AdvancedTradingEngine,
\* risk_reward_min for TradingEngine, 2.0 for CryptoTradingEngine, 1.2 for
\* ScalpingEngine) the decision is WAIT whatever the score, the ratio of a
\* risk of 0 (an ATR of 0) counting as 0.
C5_low_rr_waits ==
    Analysed =>
        /\ ( /\ win.engine = "AdvancedTradingEngine"
             /\ win.n >= 100
             /\ LET rr == AdvancedTradingEngine_reward_risk(win)
                IN  RatioLT(rr[1], rr[2],
                            IF MarketAnalyzer_detect_market_condition(win)
                                   = "NORMAL"
                            THEN 18 ELSE 22) )
           => sig.signal = "WAIT"
        /\ ( /\ win.engine = "TradingEngine"
             /\ win.n > 0
             /\ RatioLT(sig.reward_1, sig.risk, win.risk_reward_min) )
           => sig.signal = "WAIT"
        /\ ( /\ win.engine = "CryptoTradingEngine"
             /\ win.n > 0
             /\ RatioLT(sig.reward_1, sig.risk, 20) )
           => sig.signal = "WAIT"
        /\ ( /\ win.engine = "ScalpingEngine"
             /\ win.n >= 50
             /\ LET rr == ScalpingEngine_reward_risk(win)
                IN  RatioLT(rr[1], rr[2], 12) )
           => sig.signal = "WAIT"

\* a TradingEngine window with an ATR of 0: the trend and the pullback call
\* for a CALL, the score reaches min_score, and the risk of 0 makes it WAIT
C5_zero_risk_waits ==
    /\ win.engine = "TradingEngine"
    /\ win.n = 50
    /\ win.atr = 0
    /\ sig.trend = "BULLISH"
    /\ sig.score >= win.min_score
    /\ sig.risk = 0
    /\ sig.signal = "WAIT"
    /\ sig.warnings = <<"risk/reward low">>

(***************************************************************************)
(* Properties of the trade simulators                                      *)
(***************************************************************************)

Walked == trade.sim # "none"

\* the simulators that move the stop to breakeven halfway to TP1
Trailing(sim) ==
    sim \in {"simulate_trade_advanced", "simulate_trade_outcome_advanced"}

\* the profit a simulator reports for a whole position stopped at the
\* price stop, in the simulator's own unit: minus the distance from the
\* entry to the stop, minus one transaction cost
StoppedOut(t, stop) ==
    IF t.sim \in {"simulate_trade", "simulate_realistic_trade",
                  "execute_trade"}
    THEN -Abs(t.entry - stop) * 4000 - t.entry * 10
    ELSE IF t.sim = "simulate_forex_trade_v2" THEN -(t.sl_pips + 200) * 10
    ELSE IF t.sim = "Backtester_run" THEN -100
    ELSE -Abs(t.entry - stop) * 10

\* the targets a simulator looks at
Targets(t) ==
    IF t.sim = "Backtester_run" THEN {t.tp1}
    ELSE IF t.sim = "simulate_trade_advanced" THEN {t.tp1, t.tp2, t.tp3}
    ELSE {t.tp1, t.tp2}

\* the adverse extreme of the candle is at or beyond the price
Adverse(t, candle, price) ==
    IF t.signal = "CALL" THEN candle.low <= price ELSE candle.high >= price

\* the favourable extreme of the candle is at or beyond the price
Favourable(t, candle, price) ==
    IF t.signal = "CALL" THEN candle.high >= price ELSE candle.low <= price

\* C6, as stated: a whole position whose stop-loss price is touched before
\* any target is touched is closed as a LOSS of the stop distance (entry to
\* stop-loss price) plus one transaction cost.
C6_stop_loses_stop_distance ==
    ( /\ Walked
      /\ trade.i > 0
      /\ trade.position = 10
      /\ Adverse(trade, trade.candle, trade.sl)
      /\ \A tp \in Targets(trade) : ~Favourable(trade, trade.candle, tp) )
    => (trade.result = "LOSS" /\ trade.profit = StoppedOut(trade, trade.sl))

\* C6, amended: with a fixed stop (simulate_trade, simulate_realistic_trade,
\* simulate_forex_trade_v2, simulate_scalp_trade, execute_trade) the whole
\* position stopped before any target is a LOSS of the stop distance plus
\* one cost, and in Backtester.run a LOSS of signal.risk_amount;
\* simulate_trade_advanced and simulate_trade_outcome_advanced move the
\* stop to the entry price once the price has gone halfway to TP1, and a
\* whole position stopped after that is a LOSS of 0.
C6_stop_loses_distance_to_current_stop ==
    (Walked /\ trade.exit_reason = "stop" /\ trade.position = 10)
    => /\ trade.result = "LOSS"
       /\ trade.exit_price = trade.trailing_stop
       /\ ~Trailing(trade.sim)
          => (trade.trailing_stop = trade.sl
              /\ trade.profit = StoppedOut(trade, trade.sl))
       /\ Trailing(trade.sim)
          => \/ (trade.trailing_stop = trade.sl
                 /\ trade.profit = -Abs(trade.entry - trade.sl) * 10)
             \/ (trade.trailing_stop = trade.entry /\ trade.profit = 0
                 /\ 2 * Gain(trade.signal, trade.extreme, trade.entry)
                    >= Gain(trade.signal, trade.tp1, trade.entry))

\* simulate_trade stops a whole CALL position on its third candle
C6_call_stopped_out ==
    /\ trade.sim = "simulate_trade"
    /\ trade.signal = "CALL"
    /\ trade.exit_reason = "stop"
    /\ trade.i = 3
    /\ trade.position = 10
    /\ trade.candle.low <= trade.sl
    /\ trade.profit = -(trade.entry - trade.sl) * 4000 - trade.entry * 10

\* C7: a candle that reaches both the current stop and a target closes the
\* trade at the stop price as a stop-loss exit, and no target exit, full or
\* partial, is recorded for it.
C7_stop_before_target ==
    [][ ( /\ phase = "walk"
          /\ Adverse(trade, trade'.candle, trade.trailing_stop)
          /\ \E tp \in Targets(trade) : Favourable(trade, trade'.candle, tp) )
        => ( /\ trade'.exit_reason = "stop"
             /\ trade'.exit_price = trade'.trailing_stop
             /\ trade'.exit_price \in {trade.trailing_stop, trade.entry}
             /\ trade'.position = trade.position
             /\ trade'.tp1_hit = trade.tp1_hit
             /\ trade'.tp2_hit = trade.tp2_hit ) ]_vars

\* Backtester.run meets a candle spanning the stop and TP1 of a CALL
C7_candle_spans_stop_and_target ==
    /\ trade.sim = "Backtester_run"
    /\ trade.signal = "CALL"
    /\ trade.candle.low <= trade.sl
    /\ trade.candle.high >= trade.tp1
    /\ trade.exit_reason = "stop"
    /\ trade.result = "LOSS"

\* in a simulator that is given a TP2, no target has been touched by an
\* earlier candle, and the candle reaches TP2 without reaching the stop in
\* force (the entry price in the simulators with a trailing stop, whose
\* stop has by then moved to breakeven)
ReachesTP2First(t, candle) ==
    /\ t.sim # "Backtester_run"
    /\ t.position = 10
    /\ ~t.tp1_hit
    /\ ~t.tp2_hit
    /\ Favourable(t, candle, t.tp2)
    /\ ~Adverse(t, candle, t.sl)
    /\ Trailing(t.sim) => ~Adverse(t, candle, t.entry)

OneCost(t) ==
    IF t.sim \in {"simulate_trade", "simulate_realistic_trade",
                  "execute_trade"}
    THEN t.entry * 10
    ELSE IF t.sim = "simulate_forex_trade_v2" THEN 200 * 10
    ELSE 0

\* C9: when no candle touches the stop or a target and the last candle
\* closes at the entry price, the trade ends by time exit as a LOSS of
\* exactly one transaction cost.  (Backtester.run, which has no time exit,
\* is left to C10.)
C9_flat_time_exit_costs_once ==
    ( /\ Walked
      /\ trade.sim # "Backtester_run"
      /\ trade.i = trade.max_candles
      /\ trade.i > 0
      /\ trade.position = 10
      /\ ~trade.tp1_hit
      /\ ~trade.tp2_hit
      /\ trade.candle.close = trade.entry
      /\ ~Adverse(trade, trade.candle, trade.sl)
      /\ ~Adverse(trade, trade.candle, trade.trailing_stop)
      /\ \A tp \in Targets(trade) : ~Favourable(trade, trade.candle, tp) )
    => ( /\ trade.exit_reason = "time_exit"
         /\ trade.result = "LOSS"
         /\ trade.profit = -OneCost(trade) )

\* the shortest candles_after a simulator accepts, and its lookahead
MinLength(sim) ==
    IF sim = "Backtester_run" THEN 1
    ELSE IF sim = "simulate_scalp_trade" THEN 2
    ELSE IF sim = "simulate_trade_outcome_advanced" THEN 5
    ELSE 3

\* C10: a trade started on at least the minimum number of future candles
\* is closed, by its stop, a target or the time exit, after at most N
\* candles (N the lookahead of the simulator); none is left without an
\* outcome.
C10_every_trade_closes ==
    (Walked /\ trade.len >= MinLength(trade.sim))
    => /\ trade.i <= trade.max_candles
       /\ trade.max_candles <= 48
       /\ trade.result = "OPEN" => trade.i < trade.max_candles
       /\ trade.result # "OPEN"
          => ( /\ trade.result \in {"WIN", "LOSS"}
               /\ trade.exit_reason \in {"stop", "tp1", "tp2", "tp3",
                                         "time_exit"} )

\* C15: every signal an engine returns has an integer score from 0 to 100
\* and a confidence equal to score / 100 (here in hundredths), hence within
\* [0, 1].
C15_score_and_confidence_in_range ==
    (Analysed /\ sig.signal \in {"CALL", "PUT", "WAIT"})
    => /\ sig.score \in 0..100
       /\ sig.confidence = sig.score
       /\ sig.confidence \in 0..100

\* TradingEngine returns a CALL with every factor at its maximum
C15_call_with_full_score ==
    /\ win.engine = "TradingEngine"
    /\ sig.signal = "CALL"
    /\ sig.score = 100
    /\ sig.confidence = 100

\* C17: AdvancedTradingEngine.analyze returns CALL only if
\* EMA12 > EMA26 > EMA50 and PUT only if EMA12 < EMA26 < EMA50; for any
\* other ordering, ties included, no setup is scored and the decision is
\* WAIT.
C17_direction_follows_ema_order ==
    (Analysed /\ win.engine = "AdvancedTradingEngine")
    => LET ema_fast == AdvancedIndicators_calculate_ema(win, 12)
           ema_mid == AdvancedIndicators_calculate_ema(win, 26)
           ema_slow == AdvancedIndicators_calculate_ema(win, 50)
           rising == ema_fast > ema_mid /\ ema_mid > ema_slow
           falling == ema_fast < ema_mid /\ ema_mid < ema_slow
       IN  /\ sig.signal = "CALL" => rising
           /\ sig.signal = "PUT" => falling
           /\ (~rising /\ ~falling)
              => ( /\ AdvancedTradingEngine_setup(win) = <<"WAIT", 0, <<>>>>
                   /\ sig.signal = "WAIT"
                   /\ sig.score = 0
                   /\ sig.reasons = <<>> )

\* tied EMA12 and EMA26 above EMA50 pass every market filter, with the
\* price at the ideal pullback distance, and the window is turned down for
\* its score
C17_tied_emas_wait ==
    /\ win.engine = "AdvancedTradingEngine"
    /\ win.n >= 100
    /\ win.ema_fast = win.ema_mid
    /\ win.ema_mid > win.ema_slow
    /\ win.close = win.ema_fast + 200
    /\ win.rsi = 55
    /\ win.volume_ratio = 140
    /\ sig.signal = "WAIT"
    /\ sig.warnings = <<"Score insuficiente">>

\* x is one of the lines of a reasons or warnings list
Lists(seq, x) == \E i \in 1..Len(seq) : seq[i] = x

\* the direction an engine has chosen for the window: "BULLISH", "BEARISH"
\* or neither
ChosenDirection(w) ==
    IF w.engine = "TradingEngine"
    THEN TradingEngine_analyze_trend(
             TechnicalIndicators_calculate_ema(w, 20),
             TechnicalIndicators_calculate_ema(w, 50))[1]
    ELSE LET ema_fast == AdvancedIndicators_calculate_ema(w, 12)
             ema_mid == AdvancedIndicators_calculate_ema(w, 26)
             ema_slow == AdvancedIndicators_calculate_ema(w, 50)
         IN  IF ema_fast > ema_mid /\ ema_mid > ema_slow THEN "BULLISH"
             ELSE IF ema_fast < ema_mid /\ ema_mid < ema_slow THEN "BEARISH"
             ELSE "SIDEWAYS"

\* the short EMA of the engine
ShortEma(w) ==
    IF w.engine = "TradingEngine"
    THEN TechnicalIndicators_calculate_ema(w, 20)
    ELSE AdvancedIndicators_calculate_ema(w, 12)

\* how far the price is from the short EMA in the chosen direction
Ahead(w) ==
    IF ChosenDirection(w) = "BEARISH" THEN ShortEma(w) - w.close
    ELSE w.close - ShortEma(w)

\* the largest accepted pullback distance, in thousandths of a percent
MaxPullback(engine) == IF engine = "TradingEngine" THEN 1000 ELSE 1500

\* the line the pullback factor adds to reasons when it scores
PullbackCredited(w, s) ==
    IF w.engine = "TradingEngine" THEN Lists(s.reasons, "pullback")
    ELSE Lists(AdvancedTradingEngine_setup(w)[3], "price")

\* a window of TradingEngine or AdvancedTradingEngine with a direction
Directed ==
    /\ Analysed
    /\ win.engine \in {"TradingEngine", "AdvancedTradingEngine"}
    /\ sig.signal \in {"CALL", "PUT", "WAIT"}
    /\ ChosenDirection(win) \in {"BULLISH", "BEARISH"}

\* the excessive band: beyond the largest accepted pullback distance or,
\* in AdvancedTradingEngine, which scores only a price beyond EMA12 in the
\* chosen direction, on the wrong side of the EMA.  (TradingEngine takes
\* the absolute distance from EMA20, so that a price within 1% on either
\* side is in its accepted bands.)
ExcessivePullback(w) ==
    IF w.engine = "TradingEngine"
    THEN PctGT(Abs(Ahead(w)), ShortEma(w), MaxPullback(w.engine))
    ELSE \/ Ahead(w) < 0
         \/ PctGT(Ahead(w), ShortEma(w), MaxPullback(w.engine))

\* C18: when the price's distance from the short EMA is in the excessive
\* band, the pullback factor contributes no points and the direction is
\* invalidated: the decision is WAIT whatever the other factors score.
C18_excessive_pullback_waits ==
    (Directed /\ ExcessivePullback(win))
    => (~PullbackCredited(win, sig) /\ sig.signal = "WAIT")

\* the multiples of the stop distance at which an engine puts TP1 and TP2,
\* in tenths
TargetMultiples(engine) ==
    IF engine = "ScalpingEngine" THEN <<15, 20>>
    ELSE IF engine = "CryptoTradingEngine" THEN <<20, 35>>
    ELSE IF engine \in {"ForexEngine", "OptimizedForexEngine"}
    THEN <<25, 40>>
    ELSE <<20, 30>>

\* C16: a CALL has stop_loss < entry_price < take_profit_1 < take_profit_2
\* and a PUT the reverse order, each target at a fixed multiple of the
\* stop distance from the entry.
C16_levels_ordered ==
    (Analysed /\ sig.signal \in {"CALL", "PUT"})
    => LET risk == -Gain(sig.signal, sig.stop_loss, sig.entry_price)
           reward_1 == Gain(sig.signal, sig.take_profit_1, sig.entry_price)
           reward_2 == Gain(sig.signal, sig.take_profit_2, sig.entry_price)
           k == TargetMultiples(win.engine)
       IN  /\ risk > 0
           /\ reward_1 > 0
           /\ reward_2 > reward_1
           /\ reward_1 * 10 = risk * k[1]
           /\ reward_2 * 10 = risk * k[2]

\* CryptoTradingEngine returns a PUT with its targets below the entry and
\* its stop above
C16_put_levels_descend ==
    /\ win.engine = "CryptoTradingEngine"
    /\ sig.signal = "PUT"
    /\ sig.take_profit_2 < sig.take_profit_1
    /\ sig.take_profit_1 < sig.entry_price
    /\ sig.entry_price < sig.stop_loss
    /\ 2 * (sig.entry_price - sig.take_profit_2)
       = 7 * (sig.stop_loss - sig.entry_price)

\* the window of the end-to-end example: at least 100 candles in a NORMAL
\* market, EMA12 = 101 > EMA26 = 100 > EMA50 = 98, RSI 55, the close 0.2%
\* above EMA12, volume ratio 1.4, volatility not extreme and a positive ATR
ExampleWindow(w) ==
    /\ w.engine = "AdvancedTradingEngine"
    /\ w.n >= 100
    /\ MarketAnalyzer_detect_market_condition(w) = "NORMAL"
    /\ <<w.ema_fast, w.ema_mid, w.ema_slow>> = <<101000, 100000, 98000>>
    /\ w.rsi = 55
    /\ (w.close - w.ema_fast) * 1000 = w.ema_fast * 2
    /\ w.volume_ratio = 140
    /\ w.volatility <= 400
    /\ w.atr > 0

\* C19: AdvancedTradingEngine answers the example window with CALL, a
\* score of at least 70 and a reasons list that is not empty.
C19_example_window_is_call ==
    ExampleWindow(win)
    => ( /\ sig.signal = "CALL"
         /\ sig.score >= AdvancedTradingEngine_min_score("NORMAL")
         /\ sig.reasons # <<>> )

\* the example window analysed: every factor scores, 30 + 25 + 20 + 15 + 5
C19_example_scores_95 ==
    /\ ExampleWindow(win)
    /\ sig.signal = "CALL"
    /\ sig.score = 95
    /\ sig.reasons = <<"price", "trend", "rsi", "volume", "market">>
    /\ sig.stop_loss < sig.entry_price
    /\ sig.entry_price < sig.take_profit_1
    /\ sig.take_profit_1 < sig.take_profit_2

\* no line occurs twice in the list
NoRepeats(seq) ==
    \A i, j \in 1..Len(seq) : seq[i] = seq[j] => i = j

\* every line of the list is one of lines
LinesAmong(seq, lines) == \A i \in 1..Len(seq) : seq[i] \in lines

\* a setup whose reasons and warnings were returned: every analysis of
\* TradingEngine, and the analyses of AdvancedTradingEngine that end in a
\* signal (the others return the reason of the wait alone)
Scored ==
    /\ Analysed
    /\ \/ win.engine = "TradingEngine" /\ sig.signal \in {"CALL", "PUT", "WAIT"}
       \/ win.engine = "AdvancedTradingEngine" /\ sig.signal \in {"CALL", "PUT"}

\* C20, as stated: a factor that contributed points adds one line to
\* reasons, a factor that contributed none adds one line to warnings, and
\* the two lists together have as many lines as there are scoring factors
\* (five in either engine).
C20_one_line_per_factor ==
    Scored => Len(sig.reasons) + Len(sig.warnings) = 5

\* C20, amended: a factor adds at most one line.  In TradingEngine the
\* trend adds a line to reasons when the averages differ and to warnings
\* when they are equal, the RSI adds a line to one of the two lists, the
\* pullback, the volume and the candle pattern add a line to reasons or
\* none at all, and warnings also takes a line for an insufficient score
\* and one for a low risk/reward.  In AdvancedTradingEngine the factors
\* that contributed add a line to reasons and warnings stays empty.
C20_lines_by_engine ==
    Scored
    => /\ NoRepeats(sig.reasons)
       /\ NoRepeats(sig.warnings)
       /\ Len(sig.reasons) <= 5
       /\ IF win.engine = "TradingEngine"
          THEN /\ LinesAmong(sig.reasons,
                      {"trend", "pullback", "rsi", "volume", "pattern"})
               /\ LinesAmong(sig.warnings,
                      {"sideways", "rsi extreme", "score insufficient",
                       "risk/reward low"})
               /\ Lists(sig.reasons, "trend")
                  <=> ( TechnicalIndicators_calculate_ema(win, 20)
                        # TechnicalIndicators_calculate_ema(win, 50) )
               /\ Lists(sig.warnings, "sideways")
                  <=> ~Lists(sig.reasons, "trend")
               /\ Lists(sig.warnings, "rsi extreme")
                  <=> ~Lists(sig.reasons, "rsi")
               /\ Lists(sig.warnings, "score insufficient")
                  <=> sig.score < win.min_score
               /\ Lists(sig.warnings, "risk/reward low")
                  => sig.signal = "WAIT"
          ELSE /\ LinesAmong(sig.reasons,
                      {"price", "trend", "rsi", "volume", "market"})
               /\ sig.warnings = <<>>
               /\ Lists(sig.reasons, "price")
                  <=> ( /\ Ahead(win) > 0
                        /\ ~PctGT(Ahead(win), ShortEma(win),
                                  MaxPullback(win.engine)) )
               /\ Lists(sig.reasons, "volume") <=> win.volume_ratio >= 100
               /\ Lists(sig.reasons, "trend")
               /\ Lists(sig.reasons, "market")

\* a CALL of TradingEngine on three reasons and no warning: the volume and
\* the candle pattern scored too little for a line in either list
C20_call_on_three_lines ==
    /\ Scored
    /\ win.engine = "TradingEngine"
    /\ sig.signal = "CALL"
    /\ sig.reasons = <<"trend", "pullback", "rsi">>
    /\ sig.warnings = <<>>

(***************************************************************************)
(* Simulated trades after a partial exit                                   *)
(***************************************************************************)

\* C11, as stated: after the partial exit at TP1 the current stop is the
\* entry price; a later candle whose adverse extreme reaches the entry
\* price closes the remaining position at the entry price, whether or not
\* it reaches the original stop price.
C11_stop_at_entry_after_partial ==
    [][ (phase = "walk" /\ trade.tp1_hit
         /\ Adverse(trade, trade'.candle, trade.entry))
        => ( /\ trade'.exit_reason = "stop"
             /\ trade'.exit_price = trade.entry
             /\ trade'.position = trade.position ) ]_vars

\* C11, amended: simulate_trade_outcome_advanced and simulate_trade_advanced
\* hold the stop at the entry price after the partial exit at TP1, and a
\* later candle reaching the entry price closes the remaining position
\* there with no further gain or loss; in simulate_trade,
\* simulate_realistic_trade, simulate_forex_trade_v2, simulate_scalp_trade
\* and execute_trade the stop stays at the original stop price, which alone
\* triggers the stop exit.
C11_stop_after_partial_by_simulator ==
    [][ (phase = "walk" /\ trade.tp1_hit)
        => LET t == trade'
           IN  IF Trailing(trade.sim)
               THEN /\ trade.trailing_stop = trade.entry
                    /\ Adverse(trade, t.candle, trade.entry)
                       => ( /\ t.exit_reason = "stop"
                            /\ t.exit_price = trade.entry
                            /\ t.position = trade.position
                            /\ t.profit = trade.total_profit )
                    /\ ~Adverse(trade, t.candle, trade.entry)
                       => t.exit_reason # "stop"
               ELSE /\ trade.trailing_stop = trade.sl
                    /\ Adverse(trade, t.candle, trade.sl)
                       => ( /\ t.exit_reason = "stop"
                            /\ t.exit_price = trade.sl
                            /\ t.position = trade.position )
                    /\ ~Adverse(trade, t.candle, trade.sl)
                       => t.exit_reason # "stop" ]_vars

\* simulate_trade_outcome_advanced, after its partial exit, is stopped at
\* the entry price by a candle that stays above the original stop
C11_call_stopped_at_entry ==
    /\ trade.sim = "simulate_trade_outcome_advanced"
    /\ trade.signal = "CALL"
    /\ trade.tp1_hit
    /\ trade.position = 5
    /\ trade.exit_reason = "stop"
    /\ trade.exit_price = trade.entry
    /\ trade.candle.low = trade.entry
    /\ trade.candle.low > trade.sl

\* the simulator's profit unit per tenth of the position and price step
PerTenth(sim) ==
    IF sim \in {"simulate_trade", "simulate_realistic_trade", "execute_trade"}
    THEN 400
    ELSE IF sim = "simulate_forex_trade_v2" THEN 10
    ELSE 1

\* the tenths of the position a simulator closes at TP1
ClosedAtTP1(sim) ==
    IF sim = "simulate_trade_advanced" THEN 3
    ELSE IF sim = "simulate_trade_outcome_advanced" THEN 5
    ELSE 7

\* fraction times price difference, summed over the fractions closed at
\* targets and the fraction closed at the final exit
ClosedFractions(t) ==
    (IF t.tp2_hit THEN 5 * Gain(t.signal, t.tp2, t.entry) ELSE 0)
    + (IF t.tp1_hit THEN ClosedAtTP1(t.sim) * Gain(t.signal, t.tp1, t.entry)
       ELSE 0)
    + t.position * Gain(t.signal, t.exit_price, t.entry)

\* C12: on every exit path (stop, full target, partial exit then stop,
\* partial exit then time exit, plain time exit) the reported net P&L is
\* the sum over the closed fractions of fraction times price difference in
\* the trade's direction, minus exactly one transaction cost.
\* (Backtester.run reports multiples of risk_amount and is left out.)
C12_profit_is_fractions_minus_one_cost ==
    ( /\ Walked
      /\ trade.sim # "Backtester_run"
      /\ trade.result \in {"WIN", "LOSS"} )
    => trade.profit
       = ClosedFractions(trade) * PerTenth(trade.sim) - OneCost(trade)

\* C13: the outcome label of a simulated trade is WIN exactly when its net
\* realized P&L is strictly positive and LOSS otherwise, a trade closed by
\* a stop moved to breakeven after a profitable partial exit included.
C13_win_iff_positive_profit ==
    (Walked /\ trade.result \in {"WIN", "LOSS"})
    => (trade.result = "WIN" <=> trade.profit > 0)

\* the tenths of the position booked at the targets so far
ClosedTenths(t) ==
    (IF t.tp2_hit THEN 5 ELSE 0)
    + (IF t.tp1_hit THEN ClosedAtTP1(t.sim) ELSE 0)

\* C14: the remaining position starts at 1, never increases from one
\* candle to the next, stays within (0, 1], and the fractions closed at
\* targets plus the fraction left for the final exit sum to exactly 1, a
\* candle reaching TP2 before TP1 in the three-target simulator included.
C14_position_fractions_sum_to_one ==
    [][ /\ (phase = "signal" /\ phase' # "idle") => trade'.position = 10
        /\ phase = "walk"
           => ( /\ trade'.position <= trade.position
                /\ trade'.position \in 1..10
                /\ ClosedTenths(trade') + trade'.position = 10 ) ]_vars

(***************************************************************************)
(* Short windows and the indicators                                        *)
(***************************************************************************)

\* C21: on a window that is too short, the empty one included, the
\* indicators return their fallback values (the EMA the mean of the window,
\* the RSI 50, the ATR 0) and analyze returns a signal instead of raising.
C21_short_window_never_raises ==
    (Analysed /\ win.n < 50)
    => /\ sig.signal \in {"CALL", "PUT", "WAIT"}
       /\ win.engine = "TradingEngine"
          => /\ TechnicalIndicators_calculate_ema(win, 50) = win.mean
             /\ win.n < 20 => TechnicalIndicators_calculate_ema(win, 20) = win.mean
             /\ win.n < 14 + 1 => TechnicalIndicators_calculate_rsi(win) = 50
             /\ win.n < 14 => TechnicalIndicators_calculate_atr(win) = 0


\* the change of the close over the last 24 and the last 6 candles
Change24(w) == w.close - w.close_24

Change6(w) == w.close - w.close_6

\* a window of AdvancedTradingEngine long enough to be classified
Classified ==
    /\ Analysed
    /\ win.engine = "AdvancedTradingEngine"
    /\ win.n >= 50

\* C22, as stated: CRASH when the change over 24 candles is below -5%,
\* else PANIC when the change over 6 candles is below -3%, else RECOVERY
\* when a drawdown (a change over 24 candles below -2%) is followed by a
\* rebound of at least 1% over 6 candles, exactly 1% included, else NORMAL.
C22_regime_with_rebound_from_1pct ==
    Classified
    => MarketAnalyzer_detect_market_condition(win)
       = IF PctLT(Change24(win), win.close_24, -5000) THEN "CRASH"
         ELSE IF PctLT(Change6(win), win.close_6, -3000) THEN "PANIC"
         ELSE IF PctLT(Change24(win), win.close_24, -2000)
                 /\ ~PctLT(Change6(win), win.close_6, 1000) THEN "RECOVERY"
         ELSE "NORMAL"

\* C22, amended: the rebound has to exceed 1%; a rebound of exactly 1% after
\* a drawdown leaves the window NORMAL.
C22_regime_with_rebound_above_1pct ==
    Classified
    => /\ MarketAnalyzer_detect_market_condition(win)
          = IF PctLT(Change24(win), win.close_24, -5000) THEN "CRASH"
            ELSE IF PctLT(Change6(win), win.close_6, -3000) THEN "PANIC"
            ELSE IF PctLT(Change24(win), win.close_24, -2000)
                    /\ PctGT(Change6(win), win.close_6, 1000) THEN "RECOVERY"
            ELSE "NORMAL"
       /\ ( /\ PctLT(Change24(win), win.close_24, -2000)
            /\ Change6(win) * 100 = win.close_6 )
          => MarketAnalyzer_detect_market_condition(win) # "RECOVERY"

\* a close 1% above the close six candles back and 2.9% below the close 24
\* candles back, classified NORMAL
C22_rebound_of_1pct_is_normal ==
    /\ Classified
    /\ win.n >= 100
    /\ Change6(win) * 100 = win.close_6
    /\ PctLT(Change24(win), win.close_24, -2000)
    /\ ~PctLT(Change24(win), win.close_24, -5000)
    /\ MarketAnalyzer_detect_market_condition(win) = "NORMAL"


(***************************************************************************)
(* The indicators on a series of closes (trading_engine.py,                *)
(* advanced_engine_v3.py), in binary floating point.  A number is a        *)
(* fraction <<n, d>> with d a power of two; every operation rounds its     *)
(* exact result to the nearest number with a mantissa of FloatBits bits,   *)
(* ties to even, as IEEE 754 does with 53 bits.  The exponent is not       *)
(* limited.                                                                *)
(***************************************************************************)

FloatBits == 8

RECURSIVE Pow2(_)
Pow2(k) == IF k = 0 THEN 1 ELSE 2 * Pow2(k - 1)

\* x / y rounded to the nearest integer, ties to even, for x >= 0 and y > 0
HalfEven(x, y) ==
    LET q == x \div y
        r == x % y
    IN  IF 2 * r < y THEN q
        ELSE IF 2 * r > y THEN q + 1
        ELSE IF q % 2 = 0 THEN q ELSE q + 1

\* the k with 2^(FloatBits-1) <= (a / d) / 2^k < 2^FloatBits, for a > 0
RECURSIVE Exponent(_, _)
Exponent(a, d) ==
    IF a >= Pow2(FloatBits) * d THEN Exponent(a, 2 * d) + 1
    ELSE IF a < Pow2(FloatBits - 1) * d THEN Exponent(2 * a, d) - 1
    ELSE 0

\* the float nearest to n / d, for d > 0: the mantissa at the exponent k of
\* |n| / d, times 2^k, with the sign of n
Float(n, d) ==
    IF n = 0 THEN <<0, 1>>
    ELSE LET s == IF n < 0 THEN -1 ELSE 1
             k == Exponent(s * n, d)
         IN  IF k >= 0
             THEN <<s * HalfEven(s * n, d * Pow2(k)) * Pow2(k), 1>>
             ELSE <<s * HalfEven(s * n * Pow2(-k), d), Pow2(-k)>>

\* x + y, x - y, x * y and x / y of floats (y > 0 in x / y)
FAdd(x, y) ==
    LET d == Max(x[2], y[2])
    IN  Float(x[1] * (d \div x[2]) + y[1] * (d \div y[2]), d)

FSub(x, y) == FAdd(x, <<-y[1], y[2]>>)

FMul(x, y) == Float(x[1] * y[1], x[2] * y[2])

FDiv(x, y) == Float(x[1] * y[2], x[2] * y[1])

\* the sum of xs[from..to], added from left to right starting at 0.0
RECURSIVE FSum(_, _, _)
FSum(xs, from, to) ==
    IF to < from THEN <<0, 1>>
    ELSE FAdd(FSum(xs, from, to - 1), xs[to])

\* the sum left undivided
FMean_undivided(xs, from, to) == FSum(xs, from, to)

\* np.mean(xs[from..to])
FMean(xs, from, to) == FDiv(FSum(xs, from, to), <<to - from + 1, 1>>)

\* the loop of calculate_ema over prices[i..], from the average ema
RECURSIVE calculate_ema_loop(_, _, _, _)
calculate_ema_loop(prices, i, multiplier, ema) ==
    IF i > Len(prices) THEN ema
    ELSE calculate_ema_loop(prices, i + 1, multiplier,
             FAdd(FMul(FSub(prices[i], ema), multiplier), ema))

\* calculate_ema of TechnicalIndicators and of AdvancedIndicators (the same
\* code), for a series that is not empty
calculate_ema(prices, period) ==
    IF Len(prices) < period THEN FMean(prices, 1, Len(prices))
    ELSE calculate_ema_loop(prices, period + 1,
             FDiv(<<2, 1>>, <<period + 1, 1>>), FMean(prices, 1, period))

\* np.diff(prices)
diff(prices) ==
    [i \in 1..(Len(prices) - 1) |-> FSub(prices[i + 1], prices[i])]

\* no loss read as a neutral 50
calculate_rsi_value_neutral(avg_gain, avg_loss) ==
    IF avg_loss[1] = 0 THEN <<50, 1>>
    ELSE FSub(<<100, 1>>,
              FDiv(<<100, 1>>, FAdd(<<1, 1>>, FDiv(avg_gain, avg_loss))))

\* rsi = 100 - (100 / (1 + rs)) with rs = avg_gain / avg_loss
calculate_rsi_value(avg_gain, avg_loss) ==
    IF avg_loss[1] = 0 THEN <<100, 1>>
    ELSE FSub(<<100, 1>>,
              FDiv(<<100, 1>>, FAdd(<<1, 1>>, FDiv(avg_gain, avg_loss))))

\* calculate_rsi of TechnicalIndicators and of AdvancedIndicators (the same
\* code)
calculate_rsi(prices, period) ==
    IF Len(prices) < period + 1 THEN <<50, 1>>
    ELSE LET deltas == diff(prices)
             gains == [i \in 1..Len(deltas) |->
                          IF deltas[i][1] > 0 THEN deltas[i] ELSE <<0, 1>>]
             losses == [i \in 1..Len(deltas) |->
                           IF deltas[i][1] < 0
                           THEN <<-deltas[i][1], deltas[i][2]>> ELSE <<0, 1>>]
         IN  calculate_rsi_value(
                 FMean(gains, Len(gains) - period + 1, Len(gains)),
                 FMean(losses, Len(losses) - period + 1, Len(losses)))

\* the closes a series is drawn from: 100.0, 101.0, 102.5, 103.0
Closes == {<<100, 1>>, <<101, 1>>, <<205, 2>>, <<103, 1>>}

MaxSeries == 5

Periods == {2, 3, 4}

\* no candle has closed and nothing is measured
IndicatorInit ==
    /\ phase = "idle"
    /\ win = [engine |-> "indicators", closes |-> <<>>]
    /\ sig = NoSignal
    /\ trade = NoTrade

\* one more candle closes; the readings of the shorter series are dropped
NextClose ==
    /\ Len(win.closes) < MaxSeries
    /\ \E c \in Closes : win' = [win EXCEPT !.closes = Append(@, c)]
    /\ phase' = "idle"
    /\ sig' = NoSignal
    /\ UNCHANGED trade

\* calculate_ema(closes, period) and calculate_rsi(closes, period)
Indicators ==
    /\ Len(win.closes) >= 1
    /\ \E period \in Periods :
          sig' = [signal |-> "NONE", period |-> period,
                  ema |-> calculate_ema(win.closes, period),
                  rsi |-> calculate_rsi(win.closes, period)]
    /\ phase' = "signal"
    /\ UNCHANGED <<win, trade>>

IndicatorNext == NextClose \/ Indicators

IndicatorSpec == IndicatorInit /\ [][IndicatorNext]_vars

\* the series has been measured
Measured == phase = "signal" /\ win.engine = "indicators"

FLess(x, y) == x[1] * y[2] < y[1] * x[2]

FEqual(x, y) == x[1] * y[2] = y[1] * x[2]

\* the deltas calculate_rsi averages: the last period ones

AveragedDeltas(prices, period) ==
    LET deltas == diff(prices)
    IN  {deltas[i] : i \in (Len(deltas) - period + 1)..Len(deltas)}

\* C23: calculate_rsi returns a value within [0, 100], and exactly 100 when
\* no delta of the averaging window is negative, a flat window included.
C23_rsi_in_range ==
    Measured
    => /\ ~FLess(sig.rsi, <<0, 1>>)
       /\ ~FLess(<<100, 1>>, sig.rsi)
       /\ ( /\ Len(win.closes) >= sig.period + 1
            /\ \A d \in AveragedDeltas(win.closes, sig.period) : d[1] >= 0 )
          => sig.rsi = <<100, 1>>

\* a flat averaging window after a fall: the RSI is 100
C23_flat_window_is_100 ==
    /\ Measured
    /\ sig.period = 2
    /\ Len(win.closes) = 4
    /\ FLess(win.closes[2], win.closes[1])
    /\ win.closes[3] = win.closes[2]
    /\ win.closes[4] = win.closes[2]
    /\ sig.rsi = <<100, 1>>


\* every close of the series equals c
ConstantSeries(prices, c) == \A i \in 1..Len(prices) : prices[i] = c

\* a constant series measured with a period within its length
ConstantMeasured ==
    /\ Measured
    /\ sig.period <= Len(win.closes)
    /\ ConstantSeries(win.closes, win.closes[1])

LoopLength == 240

\* the indices of candles[a:b]
Slice(a, b) == {k \in 0..(LoopLength - 1) : a <= k /\ k < b}

\* the loops with their values of i, their analysis window and the candles
\* handed to the walk
Loops ==
    { [script |-> "Backtester_run", i |-> i,
       window |-> Slice(i - 50, i), future |-> Slice(i + 1, i + 2)] :
      i \in 50..(LoopLength - 1 - 1) }
    \cup
    { [script |-> "test_engine_v3", i |-> 10 * k,
       window |-> Slice(10 * k, 10 * k + 200),
       future |-> Slice(10 * k + 200, 10 * k + 200 + 30)] :
      k \in {k \in 0..LoopLength : 10 * k < LoopLength - 200 - 30} }
    \cup
    { [script |-> "backtest_scalping", i |-> 5 * k,
       window |-> Slice(5 * k, 5 * k + 100),
       future |-> Slice(5 * k + 100, 5 * k + 100 + 15)] :
      k \in {k \in 0..LoopLength : 5 * k < LoopLength - 100 - 15} }
    \cup
    { [script |-> "run_real_market_backtest", i |-> 5 * k,
       window |-> Slice(5 * k, 5 * k + 100),
       future |-> Slice(5 * k + 100, 5 * k + 100 + 20)] :
      k \in {k \in 0..LoopLength : 5 * k < LoopLength - 100 - 20} }

LoopInit ==
    /\ phase = "idle"
    /\ win = NoWindow
    /\ sig = NoSignal
    /\ trade = NoTrade

\* one iteration: engine.analyze on the window; the entry price of the
\* signal is the close of the last candle of the window
LoopAnalyze ==
    /\ \E loop \in Loops :
          win' = [engine |-> "loop", script |-> loop.script, i |-> loop.i,
                  first |-> CHOOSE k \in loop.window :
                                \A j \in loop.window : k <= j,
                  entry |-> CHOOSE k \in loop.window :
                                \A j \in loop.window : k >= j,
                  future |-> loop.future]
    /\ phase' = "signal"
    /\ sig' = NoSignal
    /\ trade' = NoTrade

\* the walk looks at its first candle, and then at the next one
LoopWalk ==
    /\ phase \in {"signal", "walk"}
    /\ win.engine = "loop"
    /\ LET candle == IF phase = "signal"
                     THEN CHOOSE k \in win.future : \A j \in win.future : k <= j
                     ELSE trade.candle + 1
       IN  /\ candle \in win.future
           /\ trade' = [sim |-> win.script, candle |-> candle,
                        started |-> IF phase = "signal" THEN candle
                                    ELSE trade.started]
    /\ phase' = "walk"
    /\ UNCHANGED <<win, sig>>

LoopNext == LoopAnalyze \/ LoopWalk

LoopSpec == LoopInit /\ [][LoopNext]_vars

\* C25: the signal of an iteration comes from the candles up to the entry
\* candle, and the first candle the walk examines is the one right after
\* the entry candle: none is skipped, none is both analysed and walked.
C25_walk_starts_after_entry ==
    (phase = "walk" /\ win.engine = "loop")
    => /\ trade.started = win.entry + 1
       /\ trade.candle > win.entry


(***************************************************************************)
(* AdvancedTradingEngine in a recovering market                            *)
(***************************************************************************)

\* a window of AdvancedTradingEngine in regime RECOVERY that passes the
\* market filters, with a positive ATR and a setup scoring at least the
\* minimum of that regime
RecoverySetup(w) ==
    /\ w.engine = "AdvancedTradingEngine"
    /\ ~AdvancedTradingEngine_insufficient_data(w)
    /\ MarketAnalyzer_detect_market_condition(w) = "RECOVERY"
    /\ AdvancedTradingEngine_market_filters(
           MarketAnalyzer_calculate_volatility(w),
           MarketAnalyzer_calculate_trend_strength(
               w, w.ema_fast, w.ema_mid, w.ema_slow),
           w.ema_slow, AdvancedIndicators_calculate_volume_profile(w)) = ""
    /\ AdvancedTradingEngine_setup(w)[2]
       >= AdvancedTradingEngine_min_score("RECOVERY")
    /\ AdvancedIndicators_calculate_atr(w) > 0

\* C26: a RECOVERY setup whose score meets the minimum of 80 and whose ATR
\* is positive passes the risk/reward gate and is returned as CALL or PUT.
C26_recovery_setup_is_signalled ==
    (Analysed /\ RecoverySetup(win)) => sig.signal \in {"CALL", "PUT"}


(***************************************************************************)
(* The trailing stop                                                       *)
(***************************************************************************)

C28_signal_carries_regime ==
    ( /\ Analysed
      /\ win.engine = "AdvancedTradingEngine"
      /\ ~AdvancedTradingEngine_insufficient_data(win) )
    => sig.market_condition = MarketAnalyzer_detect_market_condition(win)


(***************************************************************************)
(* Trading sessions and the levels of ForexEngine                          *)
(***************************************************************************)

\* the hours of each session as documented on TradingSession: LONDON
\* 08:00-17:00, NEW_YORK 13:00-22:00, OVERLAP 13:00-17:00, ASIA 00:00-09:00
\* GMT, each range without its last instant
TradingSession ==
    [LONDON |-> 8..16, NEW_YORK |-> 13..21, OVERLAP |-> 13..16,
     ASIA |-> 0..8, OFF_HOURS |-> {}]

ForexAnalysed ==
    Analysed /\ win.engine \in {"ForexEngine", "OptimizedForexEngine"}

\* C29: get_trading_session gives every UTC hour one session; OFF_HOURS
\* for the hours 22 and 23 only; for any other hour a session whose
\* documented range contains the hour, OVERLAP before LONDON and NEW_YORK
\* and LONDON before ASIA; a signal that is not WAIT carries that session.
C29_session_of_every_hour ==
    ForexAnalysed
    => LET hour == UtcHour(win.timestamp)
           session == ForexIndicators_get_trading_session(win.timestamp)
       IN  /\ session \in DOMAIN TradingSession
           /\ session = "OFF_HOURS" <=> hour \in {22, 23}
           /\ session # "OFF_HOURS" => hour \in TradingSession[session]
           /\ hour \in TradingSession.OVERLAP => session = "OVERLAP"
           /\ hour \in TradingSession.LONDON \ TradingSession.OVERLAP
              => session = "LONDON"
           /\ hour \in TradingSession.NEW_YORK \ TradingSession.OVERLAP
              => session = "NEW_YORK"
           /\ sig.signal # "WAIT" => sig.session = session

\* a signal of the hour 8, which both LONDON and ASIA contain
C29_hour_8_is_london ==
    /\ ForexAnalysed
    /\ UtcHour(win.timestamp) = 8
    /\ sig.signal # "WAIT"
    /\ sig.session = "LONDON"

\* C30: every signal of ForexEngine that is not WAIT has a stop of 15
\* pips, TP1 at 37.5 pips, TP2 at 60 pips and a risk/reward of 2.5 (pips
\* and the ratio in hundredths).
C30_forex_levels_are_fixed ==
    (Analysed /\ win.engine = "ForexEngine" /\ sig.signal # "WAIT")
    => /\ sig.stop_loss_pips = 1500
       /\ sig.take_profit_1_pips = 3750
       /\ sig.take_profit_2_pips = 6000
       /\ sig.risk_reward = 250

\* a signal on an ATR of 12 pips, where 1.5 x ATR = 18 pips is cut to 15
C30_stop_cut_to_15_pips ==
    /\ Analysed
    /\ win.engine = "ForexEngine"
    /\ sig.signal # "WAIT"
    /\ ForexIndicators_pips_from_price(ForexIndicators_calculate_atr(win)) = 1200
    /\ sig.stop_loss_pips = 1500

=============================================================================
